---- MODULE Spec2Model ----
(***************************************************************************)
(* Model of the RVU-Calculator data pipeline.                              *)
(*                                                                         *)
(* Part 1: the Timeline Merger, scripts/build_rvu_timeline.py.  One run of *)
(* main() is a sequence of steps (parse the year range, check the input    *)
(* paths, load and validate the snapshots, merge, create the output        *)
(* directory, open the output file, write it chunk by chunk, finish).      *)
(*                                                                         *)
(* Part 2: the Column Resolver and the Snapshot Normalizer,                *)
(* scripts/parse_cms_data.py.  find_column is run on its own on small      *)
(* header rows; one run of main() is a sequence of steps (dispatch, read   *)
(* the header and resolve the columns, one data row at a time, open the    *)
(* output file, dump the snapshot).                                        *)
(*                                                                         *)
(* Text is a sequence of one-character strings, so that strip() and        *)
(* upper() are computed.  A float is a record: a finite value is counted   *)
(* in units of one quantum (the default tolerance 1e-4 is one unit), and   *)
(* NaN and +Infinity are values of their own.                              *)
(***************************************************************************)
EXTENDS Integers, Sequences, FiniteSets, TLC

\* ------------------------------------------------------------------ bounds
\* Calendar years are 1..MaxYear.
MaxYear == 3
\* At most MaxPairs --year pairs on a free-form command line.
MaxPairs == 2
\* Finite component values are 0..MaxVal quanta.
MaxVal == 2
\* A header row of find_column has at most MaxHeaders cells.
MaxHeaders == 2
\* find_column is called with at most MaxPatterns patterns.
MaxPatterns == 2
\* A table of the normalizer has at most MaxRows data rows.
MaxRows == 2
\* A table handed to extract_gpci_headers has at most MaxTableRows rows, or
\* as many and a padding of empty rows.
MaxTableRows == 3

\* Years of the file mappings of build_all_data.py (the script lists seven).
MaxBuildYears == 2

\* ------------------------------------------------------------ Option values
None == <<>>
Some(x) == <<x>>
IsSome(o) == Len(o) = 1

\* --------------------------------------------------------------------- text
IsSpace(c) == c = " "

RECURSIVE LStrip(_)
LStrip(s) == IF s # <<>> /\ IsSpace(Head(s)) THEN LStrip(Tail(s)) ELSE s

RECURSIVE RStrip(_)
RStrip(s) ==
    IF s # <<>> /\ IsSpace(s[Len(s)]) THEN RStrip(SubSeq(s, 1, Len(s) - 1)) ELSE s

\* str.strip()
Strip(s) == RStrip(LStrip(s))

LowerLetters == <<"a", "b", "c", "d", "e", "f", "g", "h", "i", "j", "k", "l", "m", "n", "o", "p", "q", "r", "s", "t", "u", "v", "w", "x", "y", "z">>
UpperLetters == <<"A", "B", "C", "D", "E", "F", "G", "H", "I", "J", "K", "L", "M", "N", "O", "P", "Q", "R", "S", "T", "U", "V", "W", "X", "Y", "Z">>
DecimalDigits == <<"0", "1", "2", "3", "4", "5", "6", "7", "8", "9">>

LowerSet == {LowerLetters[i] : i \in 1..26}
UpperSet == {UpperLetters[i] : i \in 1..26}
DigitSet == {DecimalDigits[i] : i \in 1..10}

\* The upper-case form of each lower-case letter, and the reverse.
UpperOf == [c \in LowerSet |-> UpperLetters[CHOOSE i \in 1..26 : LowerLetters[i] = c]]
LowerOf == [c \in UpperSet |-> LowerLetters[CHOOSE i \in 1..26 : UpperLetters[i] = c]]

UpperChar(c) == IF c \in LowerSet THEN UpperOf[c] ELSE c

\* str.upper()
Upper(s) == [i \in 1..Len(s) |-> UpperChar(s[i])]

\* Code points of the characters the model uses, in Unicode order.
CharOrd(c) ==
    CASE c = " " -> 32
      [] c = "0" -> 48
      [] c = "1" -> 49
      [] c = "2" -> 50
      [] c = "3" -> 51
      [] c = "A" -> 65
      [] c = "B" -> 66
      [] c = "X" -> 88
      [] c = "Y" -> 89
      [] c = "a" -> 97
      [] c = "b" -> 98
      [] c = "i" -> 105
      [] c = "n" -> 110
      [] c = "f" -> 102
      [] OTHER -> 120

\* Python's str ordering: lexicographic by code point.
RECURSIVE TextLess(_, _)
TextLess(s, t) ==
    IF t = <<>> THEN FALSE
    ELSE IF s = <<>> THEN TRUE
    ELSE IF CharOrd(Head(s)) # CharOrd(Head(t)) THEN CharOrd(Head(s)) < CharOrd(Head(t))
    ELSE TextLess(Tail(s), Tail(t))

\* ------------------------------------------------------------------- floats
F(n) == [k |-> "fin", v |-> n]
NaN == [k |-> "nan", v |-> 0]
PosInf == [k |-> "inf", v |-> 0]

\* math.isfinite
IsFinite(a) == a.k = "fin"

\* IEEE-754 ==: NaN equals nothing, itself included.
FloatEq(a, b) == a.k # "nan" /\ b.k # "nan" /\ a = b

Abs(n) == IF n < 0 THEN -n ELSE n

DigitVal(c) == CharOrd(c) - 48
IsDigit(c) == c \in {"0", "1", "2", "3"}

RECURSIVE DigitsValue(_, _)
DigitsValue(s, acc) ==
    IF s = <<>> THEN acc ELSE DigitsValue(Tail(s), 10 * acc + DigitVal(Head(s)))

\* float(text) succeeds on digit strings and on "nan" and "inf".
FloatParses(s) ==
    \/ s # <<>> /\ \A i \in 1..Len(s) : IsDigit(s[i])
    \/ s = <<"n", "a", "n">>
    \/ s = <<"i", "n", "f">>

ParseFloat(s) ==
    IF s = <<"n", "a", "n">> THEN NaN
    ELSE IF s = <<"i", "n", "f">> THEN PosInf
    ELSE F(DigitsValue(s, 0))

\* -------------------------------------------------------------- JSON values
\* A JSON scalar as json.load returns it: null, a number, or a string.
JNull == [t |-> "null", f |-> F(0), s |-> <<>>]
JNum(x) == [t |-> "num", f |-> x, s |-> <<>>]
JStr(s) == [t |-> "str", f |-> F(0), s |-> s]

REQUIRED_RVU_FIELDS == {"desc", "work_rvu", "pe_rvu_fac", "pe_rvu_nonfac", "mp_rvu"}
COMPONENTS == <<"work_rvu", "pe_rvu_fac", "pe_rvu_nonfac", "mp_rvu">>

\* _coerce_float raises ValueError exactly when float(str(value).strip()) does.
CoerceOk(value) == value.t = "str" => FloatParses(Strip(value.s))

coerce_float(value) ==
    IF value.t = "null" THEN F(0)
    ELSE IF value.t = "num" THEN value.f
    ELSE ParseFloat(Strip(value.s))

\* str(row.get("desc") or "").strip() for a null or string description.
CleanDesc(value) == IF value.t = "str" THEN Strip(value.s) ELSE <<>>

\* A row of a snapshot object: a JSON object (its fields) or another value.
RowObj(fields) == [obj |-> TRUE, fields |-> fields]
RowScalar == [obj |-> FALSE, fields |-> [x \in {} |-> JNull]]

\* The row survives lines 130-136: non-blank key, a dict, no field missing.
RowKept(item) ==
    /\ Strip(item.key) # <<>>
    /\ item.row.obj
    /\ REQUIRED_RVU_FIELDS \subseteq DOMAIN item.row.fields

CleanRow(fields) ==
    [desc |-> CleanDesc(fields["desc"]),
     work_rvu |-> coerce_float(fields["work_rvu"]),
     pe_rvu_fac |-> coerce_float(fields["pe_rvu_fac"]),
     pe_rvu_nonfac |-> coerce_float(fields["pe_rvu_nonfac"]),
     mp_rvu |-> coerce_float(fields["mp_rvu"])]

\* File contents: no file, bytes that are not JSON, a JSON array, or a JSON
\* object given as its (key, row) items in document order.
NoFile == [kind |-> "nofile", items |-> <<>>]
NotJson == [kind |-> "notjson", items |-> <<>>]
JsonList == [kind |-> "list", items |-> <<>>]
JsonObject(items) == [kind |-> "object", items |-> items]

\* _validate_year_snapshot raises: top level not a dict, or a kept row with
\* a value that does not coerce.
ValidateOk(data) ==
    /\ data.kind = "object"
    /\ \A i \in 1..Len(data.items) :
          RowKept(data.items[i]) =>
              \A k \in REQUIRED_RVU_FIELDS \ {"desc"} :
                  CoerceOk(data.items[i].row.fields[k])

RECURSIVE ValidateItems(_, _)
ValidateItems(items, cleaned) ==
    IF items = <<>> THEN cleaned
    ELSE LET item == Head(items)
             code == Upper(Strip(item.key))
         IN IF RowKept(item)
            THEN ValidateItems(Tail(items),
                   [c \in DOMAIN cleaned \cup {code} |->
                       IF c = code THEN CleanRow(item.row.fields) ELSE cleaned[c]])
            ELSE ValidateItems(Tail(items), cleaned)

EmptySnapshot == [c \in {} |-> CleanRow([k \in REQUIRED_RVU_FIELDS |-> JNull])]

validate_year_snapshot(data) == ValidateItems(data.items, EmptySnapshot)

\* ------------------------------------------------------------ command line
\* --years: "N" (no dash), "S-E", or text int() rejects.
YearsSingle(y) == [form |-> "single", start |-> y, end |-> y]
YearsRange(s, e) == [form |-> "range", start |-> s, end |-> e]
YearsText == [form |-> "text", start |-> 0, end |-> 0]

\* Variant: the end < start test is missing.
ParseYearRangeRaisesTextOnly(value) == value.form = "text"

\* _parse_year_range raises ValueError.
ParseYearRangeRaises(value) ==
    \/ value.form = "text"
    \/ value.form = "range" /\ value.end < value.start

parse_year_range(value) ==
    IF value.form = "single" THEN <<value.start>>
    ELSE [i \in 1..(value.end - value.start + 1) |-> value.start + i - 1]

\* ------------------------------------------------------- _build_year_inputs
YearInput(pair) == [year |-> pair.year, path |-> pair.path, source |-> pair.path]

\* Index of the first pair whose path does not exist, or 0.
RECURSIVE FirstMissingFrom(_, _, _)
FirstMissingFrom(pairs, files, i) ==
    IF i > Len(pairs) THEN 0
    ELSE IF files[pairs[i].path].kind = "nofile" THEN i
    ELSE FirstMissingFrom(pairs, files, i + 1)

FirstMissing(pairs, files) == FirstMissingFrom(pairs, files, 1)

\* Insert yi after every element whose year is <= yi.year: list.sort is stable.
RECURSIVE InsertByYear(_, _)
InsertByYear(sorted, yi) ==
    IF sorted = <<>> THEN <<yi>>
    ELSE IF Head(sorted).year <= yi.year
         THEN <<Head(sorted)>> \o InsertByYear(Tail(sorted), yi)
         ELSE <<yi>> \o sorted

RECURSIVE SortByYear(_, _)
SortByYear(todo, sorted) ==
    IF todo = <<>> THEN sorted
    ELSE SortByYear(Tail(todo), InsertByYear(sorted, Head(todo)))

build_year_inputs(pairs) ==
    SortByYear([i \in 1..Len(pairs) |-> YearInput(pairs[i])], <<>>)

SeqToSet(s) == {s[i] : i \in 1..Len(s)}

\* Variant: the scan starts at the second output year.
FilterMissingSkipFirst(years, input_years) ==
    LET Missing(y) == y \notin input_years
    IN IF years = <<>> THEN <<>> ELSE SelectSeq(Tail(years), Missing)

\* [y for y in output_years if y not in input_years]
FilterMissing(years, input_years) ==
    LET Missing(y) == y \notin input_years
    IN SelectSeq(years, Missing)

\* ---------------------------------------------------------------- load loop
\* Index in year_inputs of the first file whose open, json.load or
\* validation raises, or 0.
RECURSIVE FirstBadFrom(_, _, _)
FirstBadFrom(inputs, files, i) ==
    IF i > Len(inputs) THEN 0
    ELSE IF ~ValidateOk(files[inputs[i].path]) THEN i
    ELSE FirstBadFrom(inputs, files, i + 1)

\* Variant: only the first input is checked before the merge.
FirstBadHeadOnly(inputs, files) ==
    IF inputs # <<>> /\ ~ValidateOk(files[inputs[1].path]) THEN 1 ELSE 0

FirstBad(inputs, files) == FirstBadFrom(inputs, files, 1)

EmptyPerYear == [y \in {} |-> EmptySnapshot]
EmptySources == [y \in {} |-> 0]

\* per_year[yi.year] = ... for every yi in order: a later input of the same
\* year replaces the earlier one.
RECURSIVE LoadPerYear(_, _, _)
LoadPerYear(inputs, files, acc) ==
    IF inputs = <<>> THEN acc
    ELSE LET yi == Head(inputs)
             snap == validate_year_snapshot(files[yi.path])
         IN LoadPerYear(Tail(inputs), files,
                [y \in DOMAIN acc \cup {yi.year} |-> IF y = yi.year THEN snap ELSE acc[y]])

RECURSIVE LoadSources(_, _)
LoadSources(inputs, acc) ==
    IF inputs = <<>> THEN acc
    ELSE LET yi == Head(inputs)
         IN LoadSources(Tail(inputs),
                [y \in DOMAIN acc \cup {yi.year} |-> IF y = yi.year THEN yi.source ELSE acc[y]])

\* -------------------------------------------------------------------- merge
\* Variant: strict comparison.
nearly_equal_strict(a, b, tol) ==
    IF IsFinite(a) /\ IsFinite(b) THEN Abs(a.v - b.v) < tol ELSE FloatEq(a, b)

nearly_equal(a, b, tol) ==
    IF IsFinite(a) /\ IsFinite(b) THEN Abs(a.v - b.v) <= tol ELSE FloatEq(a, b)

\* Variant: mp_rvu is left out of the comparison.
components_changed_three(prev, cur, tol) ==
    \E i \in 1..3 : ~nearly_equal(prev[COMPONENTS[i]], cur[COMPONENTS[i]], tol)

components_changed(prev, cur, tol) ==
    \E i \in 1..Len(COMPONENTS) : ~nearly_equal(prev[COMPONENTS[i]], cur[COMPONENTS[i]], tol)

AllCodes(py) == UNION {DOMAIN py[y] : y \in DOMAIN py}

\* sorted(): insertion into an ascending list.
RECURSIVE InsertText(_, _)
InsertText(sorted, t) ==
    IF sorted = <<>> THEN <<t>>
    ELSE IF TextLess(t, Head(sorted)) THEN <<t>> \o sorted
    ELSE <<Head(sorted)>> \o InsertText(Tail(sorted), t)

RECURSIVE SortedFrom(_, _)
SortedFrom(todo, sorted) ==
    IF todo = <<>> THEN sorted ELSE SortedFrom(Tail(todo), InsertText(sorted, Head(todo)))

\* Variant: the codes are taken in iteration order.
Unsorted(order) == order

Sorted(order) == SortedFrom(order, <<>>)

\* The orders in which iterating a set of str can yield its elements.
IterOrders(S) ==
    {o \in [1..Cardinality(S) -> S] : \A i, j \in 1..Cardinality(S) : i # j => o[i] # o[j]}

Present(py, y, code) == y \in DOMAIN py /\ code \in DOMAIN py[y]

\* Variant: a year without the code takes the row of the year before.
RowForCarry(py, y, code) ==
    IF Present(py, y, code) THEN Some(py[y][code])
    ELSE IF Present(py, y - 1, code) THEN Some(py[y - 1][code])
    ELSE None

\* per_year.get(y, {}).get(code)
RowFor(py, y, code) == IF Present(py, y, code) THEN Some(py[y][code]) ELSE None

\* present_years = [y for y in output_years if y in per_year and code in per_year[y]]
RECURSIVE PresentYears(_, _, _)
PresentYears(years, py, code) ==
    IF years = <<>> THEN <<>>
    ELSE IF Present(py, Head(years), code)
         THEN <<Head(years)>> \o PresentYears(Tail(years), py, code)
         ELSE PresentYears(Tail(years), py, code)

canonical_desc(years, py, code) ==
    LET present_years == PresentYears(years, py, code)
    IN IF present_years # <<>>
       THEN py[present_years[Len(present_years)]][code].desc
       ELSE <<>>

NoOverrides == [y \in {} |-> <<>>]

\* Variant: the comparison with the canonical description is missing.
OverrideRecordedAlways(canonical, row_desc) == canonical # <<>> /\ row_desc # <<>>

\* if canonical_desc and row_desc and row_desc != canonical_desc
OverrideRecorded(canonical, row_desc) ==
    canonical # <<>> /\ row_desc # <<>> /\ row_desc # canonical

\* Variant: the first present year is compared with an all-zero record.
StatusOfNoNew(prev, row, tol) ==
    LET zero == [desc |-> row.desc, work_rvu |-> F(0), pe_rvu_fac |-> F(0),
                 pe_rvu_nonfac |-> F(0), mp_rvu |-> F(0)]
        p == IF IsSome(prev) THEN prev[1] ELSE zero
    IN IF components_changed(p, row, tol) \/ p.desc # row.desc
       THEN "modified"
       ELSE "existing"

\* Variant: a changed record is marked as an introduction again.
StatusOfNewOnChange(prev, row, tol) ==
    IF ~IsSome(prev) THEN "new"
    ELSE IF components_changed(prev[1], row, tol) \/ prev[1].desc # row.desc
         THEN "new"
         ELSE "existing"

\* status[idx] for a present year, given the previous present row (if any).
StatusOf(prev, row, tol) ==
    IF ~IsSome(prev) THEN "new"
    ELSE IF components_changed(prev[1], row, tol) \/ prev[1].desc # row.desc
         THEN "modified"
         ELSE "existing"

\* Variant: every present year is compared with the first present year.
RECURSIVE MergeYearsAgainstFirst(_, _, _, _, _, _, _)
MergeYearsAgainstFirst(years, py, code, canonical, tol, i, acc) ==
    IF i > Len(years) THEN acc
    ELSE LET y == years[i]
             got == RowFor(py, y, code) IN
         IF ~IsSome(got)
         THEN MergeYearsAgainstFirst(years, py, code, canonical, tol, i + 1, acc)
         ELSE LET row == got[1] IN
              MergeYearsAgainstFirst(years, py, code, canonical, tol, i + 1,
                [work_rvu |-> [acc.work_rvu EXCEPT ![i] = Some(row.work_rvu)],
                 pe_rvu_fac |-> [acc.pe_rvu_fac EXCEPT ![i] = Some(row.pe_rvu_fac)],
                 pe_rvu_nonfac |-> [acc.pe_rvu_nonfac EXCEPT ![i] = Some(row.pe_rvu_nonfac)],
                 mp_rvu |-> [acc.mp_rvu EXCEPT ![i] = Some(row.mp_rvu)],
                 status |-> [acc.status EXCEPT ![i] = Some(StatusOf(acc.prev_row, row, tol))],
                 desc_overrides |->
                    IF OverrideRecorded(canonical, row.desc)
                    THEN [z \in DOMAIN acc.desc_overrides \cup {y} |->
                            IF z = y THEN row.desc ELSE acc.desc_overrides[z]]
                    ELSE acc.desc_overrides,
                 prev_row |-> IF IsSome(acc.prev_row) THEN acc.prev_row ELSE Some(row)])

\* The loop "for y in output_years" of one code, from index i on; acc holds
\* the five slot lists, the overrides and prev_row.
RECURSIVE MergeYears(_, _, _, _, _, _, _)
MergeYears(years, py, code, canonical, tol, i, acc) ==
    IF i > Len(years) THEN acc
    ELSE LET y == years[i]
             got == RowFor(py, y, code) IN
         IF ~IsSome(got)
         THEN MergeYears(years, py, code, canonical, tol, i + 1, acc)
         ELSE LET row == got[1] IN
              MergeYears(years, py, code, canonical, tol, i + 1,
                [work_rvu |-> [acc.work_rvu EXCEPT ![i] = Some(row.work_rvu)],
                 pe_rvu_fac |-> [acc.pe_rvu_fac EXCEPT ![i] = Some(row.pe_rvu_fac)],
                 pe_rvu_nonfac |-> [acc.pe_rvu_nonfac EXCEPT ![i] = Some(row.pe_rvu_nonfac)],
                 mp_rvu |-> [acc.mp_rvu EXCEPT ![i] = Some(row.mp_rvu)],
                 status |-> [acc.status EXCEPT ![i] = Some(StatusOf(acc.prev_row, row, tol))],
                 desc_overrides |->
                    IF OverrideRecorded(canonical, row.desc)
                    THEN [z \in DOMAIN acc.desc_overrides \cup {y} |->
                            IF z = y THEN row.desc ELSE acc.desc_overrides[z]]
                    ELSE acc.desc_overrides,
                 prev_row |-> Some(row)])

MergeStart(n) ==
    [work_rvu |-> [i \in 1..n |-> None],
     pe_rvu_fac |-> [i \in 1..n |-> None],
     pe_rvu_nonfac |-> [i \in 1..n |-> None],
     mp_rvu |-> [i \in 1..n |-> None],
     status |-> [i \in 1..n |-> None],
     desc_overrides |-> NoOverrides,
     prev_row |-> None]

\* codes_out[code] (lines 207-257).
TimelineEntry(years, py, code, tol) ==
    LET canonical == canonical_desc(years, py, code)
        m == MergeYears(years, py, code, canonical, tol, 1, MergeStart(Len(years)))
    IN [desc |-> canonical,
        desc_overrides |-> m.desc_overrides,
        work_rvu |-> m.work_rvu,
        pe_rvu_fac |-> m.pe_rvu_fac,
        pe_rvu_nonfac |-> m.pe_rvu_nonfac,
        mp_rvu |-> m.mp_rvu,
        status |-> m.status]

\* codes_out in insertion order: one (code, entry) per code of `codes`.
BuildCodes(codes, years, py, tol) ==
    [i \in 1..Len(codes) |->
        [code |-> codes[i], entry |-> TimelineEntry(years, py, codes[i], tol)]]

\* ------------------------------------------------------------ output file
\* json.dump writes the document piece by piece: here one chunk for "meta",
\* one per entry of "codes", and the final f.write("\n").
MetaChunk(m) == [part |-> "meta", meta |-> <<m>>, codes |-> <<>>]
CodeChunk(c) == [part |-> "code", meta |-> <<>>, codes |-> <<c>>]
EolChunk == [part |-> "eol", meta |-> <<>>, codes |-> <<>>]

Serialize(m, codes) ==
    <<MetaChunk(m)>> \o [i \in 1..Len(codes) |-> CodeChunk(codes[i])] \o <<EolChunk>>

NoMeta ==
    [years |-> <<>>, generated_at |-> 0, sources |-> EmptySources,
     total_codes |-> 0, missing_years |-> <<>>]

\* A file at the output path: absent, or holding a sequence of chunks.
AbsentFile == [exists |-> FALSE, content |-> <<>>]
FileWith(chunks) == [exists |-> TRUE, content |-> chunks]
\* What an earlier build left there: a complete document with no codes.
OldFile == FileWith(Serialize(NoMeta, <<>>))

\* ===================================================================
\* Part 2: the Snapshot Normalizer, scripts/parse_cms_data.py.

\* ----------------------------------------------------- header normalisation
\* str.lower() on one character.
LowerChar(c) == IF c \in UpperSet THEN LowerOf[c] ELSE c

Lower(s) == [i \in 1..Len(s) |-> LowerChar(s[i])]

\* re.sub(r'[^a-z0-9]', '', header.lower())
normalize_header(header) ==
    LET Kept(c) == c \in LowerSet \/ c \in DigitSet
    IN SelectSeq(Lower(header), Kept)

\* Python's `sub in s` for strings.
Contains(sub, s) ==
    \E i \in 0..(Len(s) - Len(sub)) : \A j \in 1..Len(sub) : s[i + j] = sub[j]

\* ------------------------------------------------------------- find_column
\* Lines 40-42: the test on one normalised header.
HeaderMatches(header, pattern_norm) ==
    /\ header # <<>>
    /\ (Contains(pattern_norm, header) \/ Contains(header, pattern_norm))

\* The inner loop: the first idx (0-based) that matches, or None.
RECURSIVE FirstMatchFrom(_, _, _)
FirstMatchFrom(normalized, pattern_norm, idx) ==
    IF idx >= Len(normalized) THEN None
    ELSE IF HeaderMatches(normalized[idx + 1], pattern_norm) THEN Some(idx)
    ELSE FirstMatchFrom(normalized, pattern_norm, idx + 1)

\* The outer loop over the patterns, in the order given.
RECURSIVE FindFrom(_, _)
FindFrom(normalized, patterns) ==
    IF patterns = <<>> THEN None
    ELSE LET hit == FirstMatchFrom(normalized, normalize_header(Head(patterns)), 0)
         IN IF IsSome(hit) THEN hit ELSE FindFrom(normalized, Tail(patterns))

\* Variant: the lowest matching position over all patterns.
find_column_lowest(headers, patterns) ==
    LET normalized == [i \in 1..Len(headers) |-> normalize_header(headers[i])]
        hits == {i \in 1..Len(headers) : \E k \in 1..Len(patterns) :
                    HeaderMatches(normalized[i], normalize_header(patterns[k]))}
    IN IF hits = {} THEN None ELSE Some((CHOOSE i \in hits : \A j \in hits : i <= j) - 1)

find_column(headers, patterns) ==
    FindFrom([i \in 1..Len(headers) |-> normalize_header(headers[i])], patterns)

\* ------------------------------------------------------------ numeric cells
\* re.sub(r'[^\d.\-]', '', val.strip())
CleanNumeric(cell) ==
    LET Kept(c) == c \in DigitSet \/ c \in {".", "-"}
    IN SelectSeq(Strip(cell), Kept)

AllDigits(s) == \A i \in 1..Len(s) : s[i] \in DigitSet

\* str.isdigit()
IsDigitText(s) == s # <<>> /\ AllDigits(s)

\* Position of the first "." in s, or Len(s) + 1.
RECURSIVE DotAt(_, _)
DotAt(s, i) == IF i > Len(s) \/ s[i] = "." THEN i ELSE DotAt(s, i + 1)

\* float(val) succeeds on a string of digits, "." and "-": an optional
\* leading "-", then digits with at most one ".", and at least one digit.
DecimalParses(val) ==
    LET body == IF val # <<>> /\ val[1] = "-" THEN Tail(val) ELSE val
        dot == DotAt(body, 1)
        whole == SubSeq(body, 1, dot - 1)
        frac == SubSeq(body, dot + 1, Len(body))
    IN /\ AllDigits(whole)
       /\ AllDigits(frac)
       /\ whole \o frac # <<>>

DigitValueOf == [c \in DigitSet |-> (CHOOSE i \in 1..10 : DecimalDigits[i] = c) - 1]

DecimalDigitValue(c) == DigitValueOf[c]

RECURSIVE DecimalDigitsValue(_, _)
DecimalDigitsValue(s, acc) ==
    IF s = <<>> THEN acc
    ELSE DecimalDigitsValue(Tail(s), 10 * acc + DecimalDigitValue(Head(s)))

\* float(val) in quanta of 1e-4: the first four decimals are kept.
DecimalValue(val) ==
    LET neg == val # <<>> /\ val[1] = "-"
        body == IF neg THEN Tail(val) ELSE val
        dot == DotAt(body, 1)
        whole == SubSeq(body, 1, dot - 1)
        frac == SubSeq(SubSeq(body, dot + 1, Len(body)) \o <<"0", "0", "0", "0">>, 1, 4)
        n == 10000 * DecimalDigitsValue(whole, 0) + DecimalDigitsValue(frac, 0)
    IN IF neg THEN -n ELSE n

\* ------------------------------------------------------------ parse_rvu_csv
\* The pattern lists of lines 92-97.
CPT_PATTERNS == <<<<"c", "p", "t">>, <<"h", "c", "p", "c", "s">>, <<"c", "o", "d", "e">>, <<"c", "p", "t", "/", "h", "c", "p", "c", "s">>, <<"c", "p", "t", "h", "c", "p", "c", "s">>>>
DESC_PATTERNS == <<<<"d", "e", "s", "c", "r", "i", "p", "t", "i", "o", "n">>, <<"d", "e", "s", "c">>, <<"d", "e", "s", "c", "r", "i", "p", "t", "o", "r">>>>
WORK_PATTERNS == <<<<"w", "o", "r", "k", " ", "r", "v", "u">>, <<"w", "o", "r", "k", "r", "v", "u">>, <<"w", "o", "r", "k">>>>
PE_FAC_PATTERNS == <<<<"p", "e", " ", "r", "v", "u", " ", "f", "a", "c", "i", "l", "i", "t", "y">>, <<"p", "e", "r", "f", "a", "c", "i", "l", "i", "t", "y">>, <<"p", "e", " ", "f", "a", "c">>, <<"f", "a", "c", "i", "l", "i", "t", "y", " ", "p", "e">>>>
pe_rvu_non_facility == <<"p", "e", " ", "r", "v", "u", " ", "n", "o", "n", "-", "f", "a", "c", "i", "l", "i", "t", "y">>
non_facility_pe == <<"n", "o", "n", "-", "f", "a", "c", "i", "l", "i", "t", "y", " ", "p", "e">>
PE_NONFAC_PATTERNS ==
    <<pe_rvu_non_facility, <<"p", "e", " ", "r", "v", "u", " ", "n", "o", "n", "f", "a", "c", "i", "l", "i", "t", "y">>, <<"p", "e", "n", "o", "n", "f", "a", "c", "i", "l", "i", "t", "y">>, non_facility_pe, <<"n", "o", "n", "f", "a", "c", "i", "l", "i", "t", "y", " ", "p", "e">>>>
MP_PATTERNS == <<<<"m", "p", " ", "r", "v", "u">>, <<"m", "p", "r", "v", "u">>, <<"m", "a", "l", "p", "r", "a", "c", "t", "i", "c", "e", " ", "r", "v", "u">>, <<"m", "a", "l", "p", "r", "a", "c", "t", "i", "c", "e">>, <<"m", "p">>>>

\* Lines 92-97: the six column indices.
RvuColumns(hdrs) ==
    [cpt |-> find_column(hdrs, CPT_PATTERNS),
     desc |-> find_column(hdrs, DESC_PATTERNS),
     work |-> find_column(hdrs, WORK_PATTERNS),
     pe_fac |-> find_column(hdrs, PE_FAC_PATTERNS),
     pe_nonfac |-> find_column(hdrs, PE_NONFAC_PATTERNS),
     mp |-> find_column(hdrs, MP_PATTERNS)]

HEADER_LIKE_CODES == {<<"c", "p", "t">>, <<"c", "o", "d", "e">>, <<"h", "c", "p", "c", "s">>}

\* Variant: a row is also passed over when one of its value cells holds no
\* number.
RvuRowAcceptedNumeric(row, cpt_idx) ==
    /\ Len(row) > cpt_idx
    /\ Strip(row[cpt_idx + 1]) # <<>>
    /\ Lower(Strip(row[cpt_idx + 1])) \notin HEADER_LIKE_CODES
    /\ \A j \in 1..Len(row) : j = cpt_idx + 1 \/ j = 2 \/
          (CleanNumeric(row[j]) # <<>> /\ DecimalParses(CleanNumeric(row[j])))

\* Lines 124-131: the row has a cell in the code column, and the stripped
\* cell is neither empty nor one of 'cpt', 'code', 'hcpcs'.
RvuRowAccepted(row, cpt_idx) ==
    /\ Len(row) > cpt_idx
    /\ Strip(row[cpt_idx + 1]) # <<>>
    /\ Lower(Strip(row[cpt_idx + 1])) \notin HEADER_LIKE_CODES

\* Variant: a cell that does not parse leaves the quantum 1 behind.
rvu_safe_float_nonzero(row, idx) ==
    IF idx = None \/ idx[1] >= Len(row) THEN F(0)
    ELSE LET val == CleanNumeric(row[idx[1] + 1])
         IN IF val # <<>> /\ DecimalParses(val) THEN F(DecimalValue(val)) ELSE F(1)

\* safe_float of parse_rvu_csv (lines 134-143).
rvu_safe_float(row, idx) ==
    IF idx = None \/ idx[1] >= Len(row) THEN F(0)
    ELSE LET val == CleanNumeric(row[idx[1] + 1])
         IN IF val # <<>> /\ DecimalParses(val) THEN F(DecimalValue(val)) ELSE F(0)

\* safe_str (lines 145-148).
safe_str(row, idx) ==
    IF idx = None \/ idx[1] >= Len(row) THEN <<>> ELSE Strip(row[idx[1] + 1])

\* Lines 150-156.
RvuRecord(row, cols) ==
    [desc |-> safe_str(row, cols.desc),
     work_rvu |-> rvu_safe_float(row, cols.work),
     pe_rvu_fac |-> rvu_safe_float(row, cols.pe_fac),
     pe_rvu_nonfac |-> rvu_safe_float(row, cols.pe_nonfac),
     mp_rvu |-> rvu_safe_float(row, cols.mp)]

\* A dict in insertion order, as a sequence of (key, value).
DictKeys(d) == {d[i].key : i \in 1..Len(d)}

DictGet(d, key) == d[CHOOSE i \in 1..Len(d) : d[i].key = key].value

\* Variant: an existing key keeps its first value.
DictSetdefault(d, key, value) ==
    IF key \in DictKeys(d) THEN d ELSE Append(d, [key |-> key, value |-> value])

\* d[key] = value: a new key goes last, an existing key keeps its place.
DictPut(d, key, value) ==
    IF key \in DictKeys(d)
    THEN [i \in 1..Len(d) |-> IF d[i].key = key THEN [key |-> key, value |-> value] ELSE d[i]]
    ELSE Append(d, [key |-> key, value |-> value])

\* ----------------------------------------------------- extract_gpci_headers
MAX_SCAN == 80

StartsWith(s, prefix) == Len(s) >= Len(prefix) /\ SubSeq(s, 1, Len(prefix)) = prefix

\* has_gpci_cols (lines 222-226) on the normalised cells of a row.
has_gpci_cols(norm_cells) ==
    LET gpci == <<"g", "p", "c", "i">>
        AnyCell(P(_)) == \E j \in 1..Len(norm_cells) : P(norm_cells[j])
        Pw(c) == (Contains(<<"p", "w">>, c) \/ Contains(<<"w", "o", "r", "k">>, c)) /\ Contains(gpci, c)
        Pe(c) == Contains(<<"p", "e">>, c) /\ Contains(gpci, c)
        Mp(c) == (Contains(<<"m", "p">>, c) \/ Contains(<<"p", "l">>, c) \/ Contains(<<"m", "a", "l", "p", "r", "a", "c", "t", "i", "c", "e">>, c))
                    /\ Contains(gpci, c)
    IN AnyCell(Pw) /\ AnyCell(Pe) /\ AnyCell(Mp)

NormCells(row) == [j \in 1..Len(row) |-> normalize_header(row[j])]

\* Lines 234-236: both anchors are on the row.
HasLocalityAnchors(cells) ==
    /\ \E j \in 1..Len(cells) :
          StartsWith(cells[j], <<"l", "o", "c", "a", "l", "i", "t", "y", "n", "u", "m", "b", "e", "r">>) \/ cells[j] = <<"l", "o", "c", "a", "l", "i", "t", "y", "n", "o">>
    /\ \E j \in 1..Len(cells) : StartsWith(cells[j], <<"l", "o", "c", "a", "l", "i", "t", "y", "n", "a", "m", "e">>)

\* Variant: the first line's cell wins whenever it is not empty.
MergeHeaderRowsKeepDigits(row, row2) ==
    LET width == IF Len(row) >= Len(row2) THEN Len(row) ELSE Len(row2)
        Cell(r, j) == IF j <= Len(r) THEN Strip(r[j]) ELSE <<>>
    IN [j \in 1..width |-> IF Cell(row, j) # <<>> THEN Cell(row, j) ELSE Cell(row2, j)]

\* Lines 248-258: the two header lines merged cell by cell.
MergeHeaderRows(row, row2) ==
    LET width == IF Len(row) >= Len(row2) THEN Len(row) ELSE Len(row2)
        Cell(r, j) == IF j <= Len(r) THEN Strip(r[j]) ELSE <<>>
    IN [j \in 1..width |->
           LET a_clean == Cell(row, j)
               b_clean == Cell(row2, j)
           IN IF a_clean = <<>> \/ IsDigitText(a_clean)
              THEN (IF b_clean # <<>> THEN b_clean ELSE a_clean)
              ELSE a_clean]

\* Variant: every row that is not empty is scanned.
RowScannableAny(row) == row # <<>>

\* Line 230: `if not row or len(row) < 3: continue`.
RowScannable(row) == Len(row) >= 3

HeaderInfo(idx, count, hdrs, start) ==
    [header_idx |-> idx, header_line_count |-> count, headers |-> hdrs, data_start |-> start]

\* The loop of lines 228-259 from row i (0-based) on.
RECURSIVE ExtractFrom(_, _, _)
ExtractFrom(rows, scan_limit, i) ==
    IF i >= scan_limit THEN None
    ELSE LET row == rows[i + 1] IN
         IF ~RowScannable(row) \/ ~HasLocalityAnchors(NormCells(row))
         THEN ExtractFrom(rows, scan_limit, i + 1)
         ELSE IF has_gpci_cols(NormCells(row))
         THEN Some(HeaderInfo(i, 1, row, i + 1))
         ELSE IF /\ i + 1 < scan_limit
                 /\ RowScannable(rows[i + 2])
                 /\ has_gpci_cols(NormCells(rows[i + 2]))
         THEN Some(HeaderInfo(i, 2, MergeHeaderRows(row, rows[i + 2]), i + 2))
         ELSE ExtractFrom(rows, scan_limit, i + 1)

extract_gpci_headers(rows) ==
    ExtractFrom(rows, IF MAX_SCAN < Len(rows) THEN MAX_SCAN ELSE Len(rows), 0)

\* --------------------------------------------------- derive_state_from_name
STATE_BY_NAME ==
    <<<<<<"A", "L", "A", "B", "A", "M", "A">>, <<"A", "L">>>>,
      <<<<"A", "L", "A", "S", "K", "A">>, <<"A", "K">>>>,
      <<<<"A", "R", "I", "Z", "O", "N", "A">>, <<"A", "Z">>>>,
      <<<<"A", "R", "K", "A", "N", "S", "A", "S">>, <<"A", "R">>>>,
      <<<<"C", "A", "L", "I", "F", "O", "R", "N", "I", "A">>, <<"C", "A">>>>,
      <<<<"C", "O", "L", "O", "R", "A", "D", "O">>, <<"C", "O">>>>,
      <<<<"C", "O", "N", "N", "E", "C", "T", "I", "C", "U", "T">>, <<"C", "T">>>>,
      <<<<"D", "E", "L", "A", "W", "A", "R", "E">>, <<"D", "E">>>>,
      <<<<"D", "I", "S", "T", "R", "I", "C", "T", " ", "O", "F", " ", "C", "O", "L", "U", "M", "B", "I", "A">>, <<"D", "C">>>>,
      <<<<"F", "L", "O", "R", "I", "D", "A">>, <<"F", "L">>>>,
      <<<<"G", "E", "O", "R", "G", "I", "A">>, <<"G", "A">>>>,
      <<<<"H", "A", "W", "A", "I", "I">>, <<"H", "I">>>>,
      <<<<"I", "D", "A", "H", "O">>, <<"I", "D">>>>,
      <<<<"I", "L", "L", "I", "N", "O", "I", "S">>, <<"I", "L">>>>,
      <<<<"I", "N", "D", "I", "A", "N", "A">>, <<"I", "N">>>>,
      <<<<"I", "O", "W", "A">>, <<"I", "A">>>>,
      <<<<"K", "A", "N", "S", "A", "S">>, <<"K", "S">>>>,
      <<<<"K", "E", "N", "T", "U", "C", "K", "Y">>, <<"K", "Y">>>>,
      <<<<"L", "O", "U", "I", "S", "I", "A", "N", "A">>, <<"L", "A">>>>,
      <<<<"M", "A", "I", "N", "E">>, <<"M", "E">>>>,
      <<<<"M", "A", "R", "Y", "L", "A", "N", "D">>, <<"M", "D">>>>,
      <<<<"M", "A", "S", "S", "A", "C", "H", "U", "S", "E", "T", "T", "S">>, <<"M", "A">>>>,
      <<<<"M", "I", "C", "H", "I", "G", "A", "N">>, <<"M", "I">>>>,
      <<<<"M", "I", "N", "N", "E", "S", "O", "T", "A">>, <<"M", "N">>>>,
      <<<<"M", "I", "S", "S", "I", "S", "S", "I", "P", "P", "I">>, <<"M", "S">>>>,
      <<<<"M", "I", "S", "S", "O", "U", "R", "I">>, <<"M", "O">>>>,
      <<<<"M", "O", "N", "T", "A", "N", "A">>, <<"M", "T">>>>,
      <<<<"N", "E", "B", "R", "A", "S", "K", "A">>, <<"N", "E">>>>,
      <<<<"N", "E", "V", "A", "D", "A">>, <<"N", "V">>>>,
      <<<<"N", "E", "W", " ", "H", "A", "M", "P", "S", "H", "I", "R", "E">>, <<"N", "H">>>>,
      <<<<"N", "E", "W", " ", "J", "E", "R", "S", "E", "Y">>, <<"N", "J">>>>,
      <<<<"N", "E", "W", " ", "M", "E", "X", "I", "C", "O">>, <<"N", "M">>>>,
      <<<<"N", "E", "W", " ", "Y", "O", "R", "K">>, <<"N", "Y">>>>,
      <<<<"N", "O", "R", "T", "H", " ", "C", "A", "R", "O", "L", "I", "N", "A">>, <<"N", "C">>>>,
      <<<<"N", "O", "R", "T", "H", " ", "D", "A", "K", "O", "T", "A">>, <<"N", "D">>>>,
      <<<<"O", "H", "I", "O">>, <<"O", "H">>>>,
      <<<<"O", "K", "L", "A", "H", "O", "M", "A">>, <<"O", "K">>>>,
      <<<<"O", "R", "E", "G", "O", "N">>, <<"O", "R">>>>,
      <<<<"P", "E", "N", "N", "S", "Y", "L", "V", "A", "N", "I", "A">>, <<"P", "A">>>>,
      <<<<"R", "H", "O", "D", "E", " ", "I", "S", "L", "A", "N", "D">>, <<"R", "I">>>>,
      <<<<"S", "O", "U", "T", "H", " ", "C", "A", "R", "O", "L", "I", "N", "A">>, <<"S", "C">>>>,
      <<<<"S", "O", "U", "T", "H", " ", "D", "A", "K", "O", "T", "A">>, <<"S", "D">>>>,
      <<<<"T", "E", "N", "N", "E", "S", "S", "E", "E">>, <<"T", "N">>>>,
      <<<<"T", "E", "X", "A", "S">>, <<"T", "X">>>>,
      <<<<"U", "T", "A", "H">>, <<"U", "T">>>>,
      <<<<"V", "E", "R", "M", "O", "N", "T">>, <<"V", "T">>>>,
      <<<<"V", "I", "R", "G", "I", "N", "I", "A">>, <<"V", "A">>>>,
      <<<<"W", "A", "S", "H", "I", "N", "G", "T", "O", "N">>, <<"W", "A">>>>,
      <<<<"W", "E", "S", "T", " ", "V", "I", "R", "G", "I", "N", "I", "A">>, <<"W", "V">>>>,
      <<<<"W", "I", "S", "C", "O", "N", "S", "I", "N">>, <<"W", "I">>>>,
      <<<<"W", "Y", "O", "M", "I", "N", "G">>, <<"W", "Y">>>>>>

\* re.sub(r'\*+$', '', s)
RECURSIVE DropTrailingStars(_)
DropTrailingStars(s) ==
    IF s # <<>> /\ s[Len(s)] = "*" THEN DropTrailingStars(SubSeq(s, 1, Len(s) - 1)) ELSE s

\* Position of the last "," in s, or 0.
LastComma(s) ==
    LET at == {i \in 1..Len(s) : s[i] = ","}
    IN IF at = {} THEN 0 ELSE CHOOSE i \in at : \A j \in at : j <= i

\* str.isalpha() on the letters A-Z and a-z.
IsAlphaText(s) ==
    s # <<>> /\ \A i \in 1..Len(s) : s[i] \in UpperSet \/ s[i] \in LowerSet

\* Variant: only the suffix behind a comma gives a state.
derive_state_from_suffix(locality_name) ==
    IF locality_name = <<>> THEN <<>>
    ELSE LET cleaned == Strip(DropTrailingStars(Strip(locality_name)))
             comma == LastComma(cleaned)
             tail == Upper(Strip(SubSeq(cleaned, comma + 1, Len(cleaned))))
         IN IF comma # 0 /\ Len(tail) = 2 /\ IsAlphaText(tail) THEN tail ELSE <<>>

derive_state_from_name(locality_name) ==
    IF locality_name = <<>> THEN <<>>
    ELSE LET cleaned == Strip(DropTrailingStars(Strip(locality_name)))
             comma == LastComma(cleaned)
             tail == Upper(Strip(SubSeq(cleaned, comma + 1, Len(cleaned))))
             KeptUpper(c) == c \in UpperSet \/ c = " "
             name_upper == Strip(SelectSeq(Upper(cleaned), KeptUpper))
             found == {k \in 1..Len(STATE_BY_NAME) : STATE_BY_NAME[k][1] = name_upper}
         IN IF comma # 0 /\ Len(tail) = 2 /\ IsAlphaText(tail) THEN tail
            ELSE IF found = {} THEN <<>>
            ELSE STATE_BY_NAME[CHOOSE k \in found : TRUE][2]

\* ----------------------------------------------------------- parse_gpci_csv
\* The pattern lists of lines 348-355.
MAC_PATTERNS == <<<<"m", "e", "d", "i", "c", "a", "r", "e", " ", "a", "d", "m", "i", "n", "i", "s", "t", "r", "a", "t", "i", "v", "e", " ", "c", "o", "n", "t", "r", "a", "c", "t", "o", "r">>, <<"m", "a", "c">>>>
STATE_PATTERNS == <<<<"s", "t", "a", "t", "e">>>>
LOCALITY_NUM_PATTERNS == <<<<"l", "o", "c", "a", "l", "i", "t", "y", " ", "n", "u", "m", "b", "e", "r">>, <<"l", "o", "c", "a", "l", "i", "t", "y", " ", "n", "o">>, <<"l", "o", "c", "a", "l", "i", "t", "y">>>>
LOCALITY_NAME_PATTERNS == <<<<"l", "o", "c", "a", "l", "i", "t", "y", " ", "n", "a", "m", "e">>, <<"n", "a", "m", "e">>>>
WORK_GPCI_PATTERNS == <<<<"p", "w", " ", "g", "p", "c", "i">>, <<"w", "o", "r", "k", " ", "g", "p", "c", "i">>, <<"p", "w", "g", "p", "c", "i">>, <<"w", "o", "r", "k", "g", "p", "c", "i">>>>
PE_GPCI_PATTERNS == <<<<"p", "e", " ", "g", "p", "c", "i">>, <<"p", "e", "g", "p", "c", "i">>, <<"p", "r", "a", "c", "t", "i", "c", "e", " ", "e", "x", "p", "e", "n", "s", "e", " ", "g", "p", "c", "i">>, <<"p", "r", "a", "c", "t", "i", "c", "e", "e", "x", "p", "e", "n", "s", "e", "g", "p", "c", "i">>>>
MP_GPCI_PATTERNS == <<<<"m", "p", " ", "g", "p", "c", "i">>, <<"m", "p", "g", "p", "c", "i">>, <<"p", "l", " ", "g", "p", "c", "i">>, <<"p", "l", "m", "g", "p", "c", "i">>, <<"m", "a", "l", "p", "r", "a", "c", "t", "i", "c", "e", " ", "g", "p", "c", "i">>, <<"m", "a", "l", "p", "r", "a", "c", "t", "i", "c", "e", "g", "p", "c", "i">>>>

GpciColumns(hdrs) ==
    [mac |-> find_column(hdrs, MAC_PATTERNS),
     state |-> find_column(hdrs, STATE_PATTERNS),
     locality_num |-> find_column(hdrs, LOCALITY_NUM_PATTERNS),
     locality_name |-> find_column(hdrs, LOCALITY_NAME_PATTERNS),
     work_gpci |-> find_column(hdrs, WORK_GPCI_PATTERNS),
     pe_gpci |-> find_column(hdrs, PE_GPCI_PATTERNS),
     mp_gpci |-> find_column(hdrs, MP_GPCI_PATTERNS)]

\* Lines 357-364, in the order of the dict `required`.
REQUIRED_GPCI == <<"locality_num", "locality_name", "work_gpci", "pe_gpci", "mp_gpci">>

\* Variant: only the two locality columns are required.
MissingRequiredLocality(cols) ==
    LET Unresolved(k) == cols[k] = None
    IN SelectSeq(<<"locality_num", "locality_name">>, Unresolved)

MissingRequired(cols) ==
    LET Unresolved(k) == cols[k] = None IN SelectSeq(REQUIRED_GPCI, Unresolved)

\* Variant: a cell that does not parse counts as 0.0, as in parse_rvu_csv.
gpci_safe_float_zero(row, idx) ==
    IF idx = None \/ idx[1] >= Len(row) THEN None
    ELSE LET val == CleanNumeric(row[idx[1] + 1])
         IN IF val # <<>> /\ DecimalParses(val) THEN Some(F(DecimalValue(val))) ELSE Some(F(0))

\* safe_float of parse_gpci_csv (lines 388-396): None where there is no number.
gpci_safe_float(row, idx) ==
    IF idx = None \/ idx[1] >= Len(row) THEN None
    ELSE LET val == CleanNumeric(row[idx[1] + 1])
         IN IF val # <<>> /\ DecimalParses(val) THEN Some(F(DecimalValue(val))) ELSE None

\* str(n) for n >= 0.
RECURSIVE IntToText(_)
IntToText(n) ==
    IF n < 10 THEN <<DecimalDigits[n + 1]>>
    ELSE Append(IntToText(n \div 10), DecimalDigits[(n % 10) + 1])

\* str.replace('.', '', 1)
DropFirstDot(s) ==
    LET dot == DotAt(s, 1)
    IN IF dot > Len(s) THEN s ELSE SubSeq(s, 1, dot - 1) \o SubSeq(s, dot + 1, Len(s))

\* Line 431.
LocalityKey(locality_num) ==
    IF IsDigitText(DropFirstDot(locality_num))
    THEN IntToText(DecimalDigitsValue(SubSeq(locality_num, 1, DotAt(locality_num, 1) - 1), 0))
    ELSE locality_num

\* Lines 408-410 and 420-421: the three texts of a row.
RowState(row, cols) ==
    LET state == IF cols.state # None THEN safe_str(row, cols.state) ELSE <<>>
    IN IF state = <<>> THEN derive_state_from_name(safe_str(row, cols.locality_name)) ELSE state

\* Lines 405-418: the row is a data line.
GpciRowIsData(row, cols) ==
    /\ row # <<>>
    /\ safe_str(row, cols.locality_num) # <<>>
    /\ safe_str(row, cols.locality_name) # <<>>
    /\ cols.state # None =>
          /\ safe_str(row, cols.state) # <<>>
          /\ normalize_header(safe_str(row, cols.state)) # <<"s", "t", "a", "t", "e">>

\* Lines 423-428: one of the three indices is None.
GpciRowSkipped(row, cols) ==
    \E k \in {"work_gpci", "pe_gpci", "mp_gpci"} : gpci_safe_float(row, cols[k]) = None

\* Line 432.
GpciKey(row, cols) ==
    LET state == RowState(row, cols)
        locality_key == LocalityKey(safe_str(row, cols.locality_num))
    IN IF state # <<>> THEN state \o <<"-">> \o locality_key
       ELSE safe_str(row, cols.locality_name) \o <<"-">> \o locality_key

\* Lines 434-445; "mac" is present only when the cell is not empty.
GpciRecord(row, cols) ==
    [name |-> safe_str(row, cols.locality_name),
     state |-> RowState(row, cols),
     locality |-> safe_str(row, cols.locality_num),
     work_gpci |-> gpci_safe_float(row, cols.work_gpci)[1],
     pe_gpci |-> gpci_safe_float(row, cols.pe_gpci)[1],
     mp_gpci |-> gpci_safe_float(row, cols.mp_gpci)[1],
     mac |-> IF cols.mac # None /\ safe_str(row, cols.mac) # <<>>
             THEN Some(safe_str(row, cols.mac)) ELSE None]

\* -------------------------------------------------------------------- state
VARIABLES
    args,            \* argparse namespace: years, year (the pairs), float_tol
    fs,              \* input path -> file content
    clock,           \* what _now_iso() returns
    run,             \* number of the current invocation of main()
    pc,              \* position inside main()
    output_years,
    year_inputs,
    missing_inputs,
    per_year,
    sources,
    codes_out,       \* (code, entry) in dict insertion order
    meta,
    out_dir,         \* the output directory exists
    out_file,        \* the file at args.out
    prev_file,       \* out_file when the current run started
    exit_code,       \* None while running
    stderr,
    stdout,
    io_log,          \* file-system operations of the current run
    first_codes,     \* codes_out of the previous invocation, if any
    \* one call of find_column
    fc_headers,      \* the header row
    fc_patterns,     \* *patterns
    fc_idx,          \* None before the call, then <<what it returned>>
    \* one run of parse_cms_data.py
    sys_argv,        \* sys.argv[1:]
    csv_file,        \* the file at sys.argv[1]
    json_dir,        \* the directory of sys.argv[2] exists
    json_file,       \* the file at sys.argv[2]
    json_prev,       \* json_file when the run started
    n_pc,            \* position inside main() and the parser it calls
    headers,
    cols,            \* the column indices find_column returned
    data_rows,       \* the rows after the header
    row_num,         \* how many of data_rows the loop has handled
    data,            \* rvu_data or gpci_data, in insertion order
    skipped,
    n_exit,          \* None while running
    console,         \* what was printed
    \* one call of extract_gpci_headers
    hl_rows,         \* the argument `rows`
    hl_i,            \* the loop variable i
    hl_anchor,       \* the indices whose row was tested for the anchors
    hl_cont,         \* the indices whose row was tested as a second header line
    hl_result,       \* <<what it returned>> when that is not None
    hl_pc,           \* "idle", "scan" or "done"
    \* one run of build_all_data.py
    b_dirs,          \* which of the two source directories exist
    b_sources,       \* kind -> the years whose source file exists
    b_files,         \* the files of OUTPUT_DIR
    b_pc,            \* the phase main() is in
    b_year,          \* how many years the loop of the phase has handled
    b_ran,           \* the commands run_command was given, in order
    b_phases,        \* the phase banners printed
    b_exit           \* None while running

\* The variables of the Timeline Merger.
merger ==
    <<args, fs, clock, run, pc, output_years, year_inputs, missing_inputs, per_year,
      sources, codes_out, meta, out_dir, out_file, prev_file, exit_code, stderr,
      stdout, io_log, first_codes>>

\* The variables of a find_column call.
resolver == <<fc_headers, fc_patterns, fc_idx>>

\* The variables of the Snapshot Normalizer.
normalizer ==
    <<sys_argv, csv_file, json_dir, json_file, json_prev, n_pc, headers, cols, data_rows, row_num,
      data, skipped, n_exit, console>>

\* The variables of an extract_gpci_headers call.
locator == <<hl_rows, hl_i, hl_anchor, hl_cont, hl_result, hl_pc>>

\* The variables of the build orchestrator.
builder == <<b_dirs, b_sources, b_files, b_pc, b_year, b_ran, b_phases, b_exit>>

vars == <<merger, resolver, normalizer, locator, builder>>

\* What a step of each program leaves alone.
not_merger == <<resolver, normalizer, locator, builder>>
not_resolver == <<merger, normalizer, locator, builder>>
not_normalizer == <<merger, resolver, locator, builder>>
not_locator == <<merger, resolver, normalizer, builder>>
not_builder == <<merger, resolver, normalizer, locator>>

n_inputs == <<sys_argv, csv_file, json_prev>>
n_locals == <<headers, cols, data_rows, row_num, data, skipped>>

inputs == <<args, fs>>
locals == <<output_years, year_inputs, missing_inputs, per_year, sources, codes_out, meta>>

\* The document main() has built (the value of `out`).
Doc == Serialize(meta, codes_out)

\* State of a process that has just entered main().
Entry ==
    /\ pc = "start"
    /\ output_years = <<>>
    /\ year_inputs = <<>>
    /\ missing_inputs = <<>>
    /\ per_year = EmptyPerYear
    /\ sources = EmptySources
    /\ codes_out = <<>>
    /\ meta = NoMeta
    /\ exit_code = None
    /\ stderr = {}
    /\ stdout = {}
    /\ io_log = {}

\* ------------------------------------------------------------------- inputs
CodeA == <<"A">>
CodeB == <<"B">>
DescX == <<"X">>
DescY == <<"Y">>

Vec(k, x) == [i \in 1..4 |-> IF i = k THEN x ELSE F(0)]

RowOf(desc, vec) ==
    RowObj([f \in REQUIRED_RVU_FIELDS |->
        CASE f = "desc" -> desc
          [] f = "work_rvu" -> JNum(vec[1])
          [] f = "pe_rvu_fac" -> JNum(vec[2])
          [] f = "pe_rvu_nonfac" -> JNum(vec[3])
          [] f = "mp_rvu" -> JNum(vec[4])])

Item(key, row) == [key |-> key, row |-> row]

\* Rows of one code that differ in component k only; the first component
\* also takes the values that are not finite.
DataRows(k) ==
    {RowOf(JStr(DescX), Vec(k, F(v))) : v \in 0..MaxVal}
      \cup (IF k = 1
            THEN {RowOf(JStr(DescX), Vec(k, NaN)), RowOf(JStr(DescX), Vec(k, PosInf))}
            ELSE {})

DataContents(k) ==
    {JsonObject(<<>>)} \cup {JsonObject(<<Item(CodeA, r)>>) : r \in DataRows(k)}

Zero == Vec(1, F(0))

GoodFile == JsonObject(<<Item(CodeA, RowOf(JStr(DescX), Zero))>>)

\* Snapshots for free-form command lines: two codes, three descriptions
\* (one of them empty).
CliContents ==
    {GoodFile,
     JsonObject(<<Item(CodeB, RowOf(JStr(DescX), Zero)), Item(CodeA, RowOf(JStr(DescY), Zero))>>),
     JsonObject(<<Item(CodeA, RowOf(JStr(<<>>), Zero))>>)}

\* Files that are missing or malformed, and snapshots that exercise
\* _validate_year_snapshot and _coerce_float.
EdgeContents ==
    {NoFile,
     JsonList,
     NotJson,
     JsonObject(<<Item(<<" ">>, RowOf(JStr(DescX), Zero)), Item(CodeB, RowScalar)>>),
     JsonObject(<<Item(<<" ", "a">>, RowOf(JStr(<<"X", " ">>), Zero)),
                  Item(CodeA, RowOf(JNull, Vec(1, F(1))))>>),
     JsonObject(<<Item(CodeA,
         RowObj([f \in REQUIRED_RVU_FIELDS \ {"mp_rvu"} |-> JNull]))>>),
     JsonObject(<<Item(CodeA,
         RowObj([f \in REQUIRED_RVU_FIELDS |->
             IF f = "work_rvu" THEN JStr(<<" ", "2">>) ELSE JNull]))>>),
     JsonObject(<<Item(CodeA,
         RowObj([f \in REQUIRED_RVU_FIELDS |->
             IF f = "work_rvu" THEN JStr(<<"n", "a", "n">>) ELSE JNull]))>>),
     JsonObject(<<Item(CodeB, RowOf(JStr(DescX), Zero)),
                  Item(CodeA,
         RowObj([f \in REQUIRED_RVU_FIELDS |->
             IF f = "mp_rvu" THEN JStr(<<"X">>) ELSE JNull]))>>)}

\* ------------------------------------------------------ find_column calls
\* No call of find_column is being observed.
ResolverIdle ==
    /\ fc_headers = <<>>
    /\ fc_patterns = <<>>
    /\ fc_idx = None

\* Short headers and patterns: empty, punctuation only, one contained in
\* another, upper and lower case.
HdrTexts == {<<>>, <<"-">>, <<"a">>, <<"A", "b">>, <<"b">>}
PatTexts == {<<"a">>, <<"A", "-", "B">>, <<"b">>, <<>>, <<"c">>}

\* All sequences over S of length at most n.
SeqsUpTo(S, n) == UNION {[1..k -> S] : k \in 0..n}

\* Header cells as they are spelled in CMS tables.
PE_RVU_NON_FACILITY == <<"P", "E", " ", "R", "V", "U", " ", "N", "o", "n", "-", "F", "a", "c", "i", "l", "i", "t", "y">>
NON_FACILITY_PE == <<"N", "o", "n", "-", "F", "a", "c", "i", "l", "i", "t", "y", " ", "P", "E">>
HCPCS == <<"H", "C", "P", "C", "S">>

InitSmall ==
    /\ fc_headers \in SeqsUpTo(HdrTexts, MaxHeaders)
    /\ fc_patterns \in SeqsUpTo(PatTexts, MaxPatterns)

InitNamed ==
    /\ fc_headers \in {<<h>> : h \in {PE_RVU_NON_FACILITY, NON_FACILITY_PE}}
                        \cup {<<HCPCS, h>> : h \in {PE_RVU_NON_FACILITY, NON_FACILITY_PE}}
    /\ fc_patterns \in {<<non_facility_pe>>, <<pe_rvu_non_facility>>, PE_NONFAC_PATTERNS}

\* ------------------------------------------------- parse_cms_data.py: state
NoColumns == [c \in {} |-> None]

\* State of a process that has just entered main() of parse_cms_data.py.
NormalizerEntry ==
    /\ n_pc = "main"
    /\ headers = <<>>
    /\ cols = NoColumns
    /\ data_rows = <<>>
    /\ row_num = 0
    /\ data = <<>>
    /\ skipped = 0
    /\ n_exit = None
    /\ console = {}

\* A CSV file as csv.reader yields it: a list of rows, each a list of cells.
NoCsv == [exists |-> FALSE, readable |-> FALSE, rows |-> <<>>]
UnreadableCsv == [exists |-> TRUE, readable |-> FALSE, rows |-> <<>>]
CsvFile(rows) == [exists |-> TRUE, readable |-> TRUE, rows |-> rows]

\* parse_cms_data.py has not been started.
NormalizerIdle ==
    /\ sys_argv = <<>>
    /\ csv_file = NoCsv
    /\ json_dir = FALSE
    /\ json_file = AbsentFile
    /\ json_prev = AbsentFile
    /\ NormalizerEntry

\* extract_gpci_headers has not been called.
LocatorIdle ==
    /\ hl_rows = <<>>
    /\ hl_i = 0
    /\ hl_anchor = {}
    /\ hl_cont = {}
    /\ hl_result = None
    /\ hl_pc = "idle"

\* build_all_data.py has not been started.
BuilderIdle ==
    /\ b_dirs = {}
    /\ b_sources = <<>>
    /\ b_files = <<>>
    /\ b_pc = "idle"
    /\ b_year = 0
    /\ b_ran = <<>>
    /\ b_phases = <<>>
    /\ b_exit = None

\* A line on the console; `list` is the header list the line ends with.
Line(msg) == [msg |-> msg, list |-> <<>>]
LineWith(msg, list) == [msg |-> msg, list |-> list]

Years == 1..MaxYear

YearsArgs ==
    {YearsSingle(y) : y \in Years}
      \cup {YearsRange(s, e) : s \in Years, e \in Years}
      \cup {YearsText}

ValidRanges == {YearsRange(s, e) : s \in Years, e \in Years} \ {ya \in YearsArgs : ParseYearRangeRaises(ya)}

Tols == {0, 1}

\* One --year YEAR PATH; YEAR is an integer literal, PATH names file p.
Pair(y, p) == [year |-> y, path |-> p]

Args(years, pairs, tol) == [years |-> years, year |-> pairs, float_tol |-> tol]

OutStates == {<<FALSE, AbsentFile>>, <<TRUE, OldFile>>}

\* One snapshot per calendar year, in order, over the whole range.
InitData ==
    \E k \in 1..4, tol \in Tols :
        \E files \in [Years -> DataContents(k)] :
            /\ args = Args(YearsRange(1, MaxYear), [i \in Years |-> Pair(i, i)], tol)
            /\ fs = files
            /\ out_dir = FALSE
            /\ out_file = AbsentFile

\* Any valid range, any pairs (years repeated, unordered, out of range).
InitCli ==
    \E ya \in ValidRanges, n \in 1..MaxPairs :
        \E ys \in [1..n -> Years], files \in [1..n -> CliContents] :
            /\ args = Args(ya, [i \in 1..n |-> Pair(ys[i], i)], 1)
            /\ fs = files
            /\ out_dir = FALSE
            /\ out_file = AbsentFile

\* Any --years value; pairs for years 1..n, one of which names a missing,
\* malformed or unusual file; the output file absent or left by an
\* earlier build.
InitEdge ==
    \E ya \in YearsArgs, n \in 1..MaxPairs :
        \E b \in 1..n, c \in EdgeContents, o \in OutStates :
            /\ args = Args(ya, [i \in 1..n |-> Pair(i, i)], 1)
            /\ fs = [i \in 1..n |-> IF i = b THEN c ELSE GoodFile]
            /\ out_dir = o[1]
            /\ out_file = o[2]

InitRest ==
    /\ clock = 1
    /\ run = 1
    /\ prev_file = out_file
    /\ first_codes = None
    /\ Entry

Init == (InitData \/ InitCli \/ InitEdge) /\ InitRest /\ ResolverIdle /\ NormalizerIdle /\ LocatorIdle /\ BuilderIdle

\* Free-form command lines only.
InitFree == (InitCli \/ InitEdge) /\ InitRest /\ ResolverIdle /\ NormalizerIdle /\ LocatorIdle /\ BuilderIdle

\* ------------------------------------------------------------------ actions
\* An uncaught exception: traceback on stderr, exit status 1.
Raise ==
    /\ stderr' = stderr \cup {"Traceback"}
    /\ exit_code' = Some(1)
    /\ pc' = "done"

\* Lines 173-178.
ParseYearRange ==
    /\ pc = "start"
    /\ IF ParseYearRangeRaises(args.years)
       THEN /\ stderr' = stderr \cup {"ERROR"}
            /\ exit_code' = Some(2)
            /\ pc' = "done"
            /\ UNCHANGED output_years
       ELSE /\ output_years' = parse_year_range(args.years)
            /\ pc' = "inputs"
            /\ UNCHANGED <<stderr, exit_code>>
    /\ UNCHANGED <<not_merger, inputs, clock, run, year_inputs, missing_inputs, per_year, sources,
                   codes_out, meta, out_dir, out_file, prev_file, stdout, io_log,
                   first_codes>>

\* Lines 180-188: _build_year_inputs, input_years, missing_inputs, warning.
BuildYearInputs ==
    /\ pc = "inputs"
    /\ LET m == FirstMissing(args.year, fs) IN
       IF m # 0
       THEN /\ io_log' = io_log \cup {<<"exists", args.year[i].path>> : i \in 1..m}
            /\ Raise
            /\ UNCHANGED <<year_inputs, missing_inputs>>
       ELSE LET yis == build_year_inputs(args.year)
                input_years == {yis[i].year : i \in 1..Len(yis)}
                missing == FilterMissing(output_years, input_years)
            IN /\ io_log' = io_log \cup {<<"exists", args.year[i].path>> : i \in 1..Len(args.year)}
               /\ year_inputs' = yis
               /\ missing_inputs' = missing
               /\ stderr' = IF missing # <<>> THEN stderr \cup {"WARNING"} ELSE stderr
               /\ pc' = "load"
               /\ UNCHANGED exit_code
    /\ UNCHANGED <<not_merger, inputs, clock, run, output_years, per_year, sources, codes_out, meta,
                   out_dir, out_file, prev_file, stdout, first_codes>>

\* Lines 190-196: the loop over year_inputs; the first file that fails to
\* parse or validate ends the run.
LoadSnapshots ==
    /\ pc = "load"
    /\ LET b == FirstBad(year_inputs, fs)
           done == IF b = 0 THEN year_inputs ELSE SubSeq(year_inputs, 1, b - 1)
           opened == IF b = 0 THEN year_inputs ELSE SubSeq(year_inputs, 1, b)
       IN /\ io_log' = io_log \cup {<<"read", opened[i].path>> : i \in 1..Len(opened)}
          /\ per_year' = LoadPerYear(done, fs, EmptyPerYear)
          /\ sources' = LoadSources(done, EmptySources)
          /\ IF b # 0
             THEN Raise
             ELSE pc' = "merge" /\ UNCHANGED <<stderr, exit_code>>
    /\ UNCHANGED <<not_merger, inputs, clock, run, output_years, year_inputs, missing_inputs,
                   codes_out, meta, out_dir, out_file, prev_file, stdout, first_codes>>

\* Lines 198-268: all_codes, the loop over sorted(all_codes), and `out`.
Merge ==
    /\ pc = "merge"
    /\ \E order \in IterOrders(AllCodes(per_year)) :
          codes_out' = BuildCodes(Sorted(order), output_years, per_year, args.float_tol)
    /\ meta' = [years |-> output_years,
                generated_at |-> clock,
                sources |-> sources,
                total_codes |-> Len(codes_out'),
                missing_years |-> missing_inputs]
    /\ pc' = "mkdir"
    /\ UNCHANGED <<not_merger, inputs, clock, run, output_years, year_inputs, missing_inputs,
                   per_year, sources, out_dir, out_file, prev_file, exit_code, stderr,
                   stdout, io_log, first_codes>>

\* Line 271: out_path.parent.mkdir(parents=True, exist_ok=True).
Mkdir ==
    /\ pc = "mkdir"
    /\ out_dir' = TRUE
    /\ io_log' = io_log \cup {<<"mkdir", 0>>}
    /\ pc' = "open"
    /\ UNCHANGED <<not_merger, inputs, clock, run, locals, out_file, prev_file, exit_code, stderr,
                   stdout, first_codes>>

\* Line 273: open(..., "w") creates the file or truncates it.
OpenOut ==
    /\ pc = "open"
    /\ out_file' = FileWith(<<>>)
    /\ io_log' = io_log \cup {<<"open_w", 0>>}
    /\ pc' = "write"
    /\ UNCHANGED <<not_merger, inputs, clock, run, locals, out_dir, prev_file, exit_code, stderr,
                   stdout, first_codes>>

\* Lines 274-275: the next chunk reaches the file.
WriteChunk ==
    /\ pc = "write"
    /\ Len(out_file.content) < Len(Doc)
    /\ out_file' = FileWith(Append(out_file.content, Doc[Len(out_file.content) + 1]))
    /\ io_log' = io_log \cup {<<"write", 0>>}
    /\ UNCHANGED <<not_merger, inputs, clock, run, pc, locals, out_dir, prev_file, exit_code, stderr,
                   stdout, first_codes>>

\* Lines 275-278: the file is closed, the summary printed, main returns 0.
Finish ==
    /\ pc = "write"
    /\ Len(out_file.content) = Len(Doc)
    /\ stdout' = stdout \cup {"Wrote timeline"}
    /\ exit_code' = Some(0)
    /\ pc' = "done"
    /\ UNCHANGED <<not_merger, inputs, clock, run, locals, out_dir, out_file, prev_file, stderr,
                   io_log, first_codes>>

\* The operating system fails mkdir, open or a write (disk full, no
\* permission): OSError is not caught anywhere in main().
OutputFault ==
    /\ pc \in {"mkdir", "open", "write"}
    /\ Raise
    /\ UNCHANGED <<not_merger, inputs, clock, run, locals, out_dir, out_file, prev_file, stdout,
                   io_log, first_codes>>

\* The same command line is run again after a successful run.
Rerun ==
    /\ pc = "done"
    /\ run = 1
    /\ exit_code = Some(0)
    /\ run' = 2
    /\ clock' = clock + 1
    /\ first_codes' = Some(codes_out)
    /\ prev_file' = out_file
    /\ pc' = "start"
    /\ output_years' = <<>>
    /\ year_inputs' = <<>>
    /\ missing_inputs' = <<>>
    /\ per_year' = EmptyPerYear
    /\ sources' = EmptySources
    /\ codes_out' = <<>>
    /\ meta' = NoMeta
    /\ exit_code' = None
    /\ stderr' = {}
    /\ stdout' = {}
    /\ io_log' = {}
    /\ UNCHANGED <<not_merger, inputs, out_dir, out_file>>

Next ==
    \/ ParseYearRange
    \/ BuildYearInputs
    \/ LoadSnapshots
    \/ Merge
    \/ Mkdir
    \/ OpenOut
    \/ WriteChunk
    \/ Finish

Spec == Init /\ [][Next]_vars

NextFault == Next \/ OutputFault

SpecFault == InitFree /\ [][NextFault]_vars

NextTwice == Next \/ Rerun

SpecTwice == InitFree /\ [][NextTwice]_vars

\* ------------------------------------------------- specification: resolver
\* The merger has not been started.
MergerIdle ==
    /\ args = Args(YearsSingle(1), <<>>, 0)
    /\ fs = <<>>
    /\ out_dir = FALSE
    /\ out_file = AbsentFile
    /\ InitRest

InitResolver ==
    /\ InitSmall \/ InitNamed
    /\ fc_idx = None
    /\ MergerIdle
    /\ NormalizerIdle
    /\ LocatorIdle
    /\ BuilderIdle

\* idx = find_column(headers, *patterns)
FindColumn ==
    /\ fc_idx = None
    /\ fc_idx' = Some(find_column(fc_headers, fc_patterns))
    /\ UNCHANGED <<fc_headers, fc_patterns, not_resolver>>

NextResolver == FindColumn

SpecResolver == InitResolver /\ [][NextResolver]_vars

\* ------------------------------------------------ parse_cms_data.py: actions
\* sys.exit(1) after the lines `said`.
NExit(said) ==
    /\ console' = console \cup said
    /\ n_exit' = Some(1)
    /\ n_pc' = "done"

\* main(), lines 471-495.
NMain ==
    /\ n_pc = "main"
    /\ IF Len(sys_argv) < 2
       THEN NExit({Line("Quick start:")}) /\ UNCHANGED json_dir
       ELSE IF ~csv_file.exists
       THEN NExit({Line("ERROR: Input file not found")}) /\ UNCHANGED json_dir
       ELSE /\ json_dir' = TRUE
            /\ n_pc' = IF Contains(<<"g", "p", "c", "i">>, Lower(sys_argv[2]))
                       THEN "gpci_header" ELSE "rvu_header"
            /\ UNCHANGED <<n_exit, console>>
    /\ UNCHANGED <<n_inputs, n_locals, json_file, not_normalizer>>

\* parse_rvu_csv, lines 50-120: open the file, read the header row, resolve
\* the columns.  next(reader) on a file without rows raises StopIteration.
RvuHeader ==
    /\ n_pc = "rvu_header"
    /\ IF ~csv_file.readable
       THEN NExit({Line("ERROR: Could not open file")}) /\ UNCHANGED n_locals
       ELSE IF csv_file.rows = <<>>
       THEN NExit({Line("Traceback")}) /\ UNCHANGED n_locals
       ELSE \E hdrs \in {Head(csv_file.rows)} : \E found \in {RvuColumns(hdrs)} :
               /\ headers' = hdrs
               /\ cols' = found
               /\ UNCHANGED <<row_num, data, skipped>>
               /\ IF found.cpt = None
                  THEN /\ NExit({Line("ERROR: Could not find CPT/HCPCS column"),
                                 LineWith("Available headers:", hdrs)})
                       /\ UNCHANGED data_rows
                  ELSE /\ data_rows' = Tail(csv_file.rows)
                       /\ console' = console \cup {Line("Column mapping:")}
                       /\ n_pc' = "rvu_rows"
                       /\ UNCHANGED n_exit
    /\ UNCHANGED <<n_inputs, json_dir, json_file, not_normalizer>>

\* One pass of the loop of lines 122-161.  Nothing in the body raises, so
\* `skipped` stays 0.
RvuRow ==
    /\ n_pc = "rvu_rows"
    /\ row_num < Len(data_rows)
    /\ LET row == data_rows[row_num + 1] IN
       data' = IF RvuRowAccepted(row, cols.cpt[1])
               THEN DictPut(data, Strip(row[cols.cpt[1] + 1]), RvuRecord(row, cols))
               ELSE data
    /\ row_num' = row_num + 1
    /\ UNCHANGED <<n_inputs, headers, cols, data_rows, skipped, json_dir, json_file, n_pc,
                   n_exit, console, not_normalizer>>

\* parse_gpci_csv, lines 181-386: open the file, find the header, resolve
\* the columns.
GpciHeader ==
    /\ n_pc = "gpci_header"
    /\ IF ~csv_file.readable
       THEN NExit({Line("ERROR: Could not open file")}) /\ UNCHANGED n_locals
       ELSE \E header_info \in {extract_gpci_headers(csv_file.rows)} :
            IF header_info = None
            THEN NExit({Line("ERROR: Could not detect GPCI header row")}) /\ UNCHANGED n_locals
            ELSE \E hdrs \in {header_info[1].headers} : \E found \in {GpciColumns(hdrs)} :
                 LET rest == SubSeq(csv_file.rows, header_info[1].data_start + 1,
                                    Len(csv_file.rows))
                 IN /\ headers' = hdrs
                    /\ cols' = found
                    /\ data_rows' = rest
                    /\ UNCHANGED <<row_num, data, skipped>>
                    /\ IF MissingRequired(found) # <<>>
                       THEN NExit({Line("ERROR: Missing required GPCI columns:"),
                                   LineWith("Available headers:", hdrs)})
                       ELSE /\ console' = console \cup {Line("Column mapping:")}
                            /\ n_pc' = "gpci_rows"
                            /\ UNCHANGED n_exit
    /\ UNCHANGED <<n_inputs, json_dir, json_file, not_normalizer>>

\* One pass of the loop of lines 404-445.
GpciRow ==
    /\ n_pc = "gpci_rows"
    /\ row_num < Len(data_rows)
    /\ LET row == data_rows[row_num + 1] IN
       IF ~GpciRowIsData(row, cols)
       THEN UNCHANGED <<data, skipped>>
       ELSE IF GpciRowSkipped(row, cols)
       THEN skipped' = skipped + 1 /\ UNCHANGED data
       ELSE /\ data' = DictPut(data, GpciKey(row, cols), GpciRecord(row, cols))
            /\ UNCHANGED skipped
    /\ row_num' = row_num + 1
    /\ UNCHANGED <<n_inputs, headers, cols, data_rows, json_dir, json_file, n_pc, n_exit,
                   console, not_normalizer>>

\* Lines 163-169 and 447-453: the loop is over; open(output_path, 'w')
\* creates the file or truncates it.
OpenJson ==
    /\ n_pc \in {"rvu_rows", "gpci_rows"}
    /\ row_num = Len(data_rows)
    /\ console' = console \cup {Line("Parsed"), Line("Writing JSON to:")}
                    \cup (IF skipped > 0 THEN {Line("Skipped")} ELSE {})
    /\ json_file' = FileWith(<<>>)
    /\ n_pc' = "dump"
    /\ UNCHANGED <<n_inputs, n_locals, json_dir, n_exit, not_normalizer>>

\* Lines 170-175 and 454-468: json.dump, the closing lines, return to main,
\* which ends with status 0.
DumpJson ==
    /\ n_pc = "dump"
    /\ json_file' = FileWith(<<data>>)
    /\ console' = console \cup {Line("Success! Created")}
    /\ n_exit' = Some(0)
    /\ n_pc' = "done"
    /\ UNCHANGED <<n_inputs, n_locals, json_dir, not_normalizer>>

NextNormalizer ==
    \/ NMain
    \/ RvuHeader
    \/ RvuRow
    \/ GpciHeader
    \/ GpciRow
    \/ OpenJson
    \/ DumpJson

\* ------------------------------------------------ parse_cms_data.py: inputs
RVU_HEADER == <<<<"C", "P", "T", "/", "H", "C", "P", "C", "S">>, <<"D", "e", "s", "c", "r", "i", "p", "t", "i", "o", "n">>, <<"W", "o", "r", "k", " ", "R", "V", "U">>, <<"P", "E", " ", "R", "V", "U", " ", "F", "a", "c", "i", "l", "i", "t", "y">>, <<"P", "E", " ", "R", "V", "U", " ", "N", "o", "n", "-", "F", "a", "c", "i", "l", "i", "t", "y">>, <<"M", "P", " ", "R", "V", "U">>>>

\* Data rows of an RVU table: codes that repeat, differ in case or are blank or
\* header-like; cells that are blank, negative or not numbers; short rows.
RvuRows ==
    {<<<<"A">>, <<"X">>, <<"1">>, <<"1">>, <<"1">>, <<"1">>>>,
     <<<<"A">>, <<"Y">>, <<"2">>, <<"1">>, <<"1">>, <<"1">>>>,
     <<<<" ", "a", " ">>, <<"X">>, <<"1">>, <<"1">>, <<"1">>, <<"1">>>>,
     <<<<"B">>, <<"X">>, <<"1">>, <<"1">>, <<"1">>, <<"1">>>>,
     <<<<>>, <<"X">>, <<"1">>, <<"1">>, <<"1">>, <<"1">>>>,
     <<<<"C", "o", "d", "e">>, <<"X">>, <<"1">>, <<"1">>, <<"1">>, <<"1">>>>,
     <<<<"A">>, <<"X">>, <<>>, <<"1">>, <<"1">>, <<"1">>>>,
     <<<<"A">>, <<"X">>, <<"-", "1">>, <<"1">>, <<"1">>, <<"1">>>>,
     <<<<"A">>, <<"X">>, <<"1">>, <<>>, <<"1">>, <<"1">>>>,
     <<<<"A">>, <<"X">>, <<"1">>, <<"-", "1">>, <<"1">>, <<"1">>>>,
     <<<<"A">>, <<"X">>, <<"1">>, <<"1">>, <<>>, <<"1">>>>,
     <<<<"A">>, <<"X">>, <<"1">>, <<"1">>, <<"-", "1">>, <<"1">>>>,
     <<<<"A">>, <<"X">>, <<"1">>, <<"1">>, <<"1">>, <<>>>>,
     <<<<"A">>, <<"X">>, <<"1">>, <<"1">>, <<"1">>, <<"-", "1">>>>,
     <<<<"A">>, <<"X">>, <<"-">>, <<"1">>, <<"1">>, <<"1">>>>,
     <<<<"A">>, <<"X">>, <<"x">>, <<"1">>, <<"1">>, <<"1">>>>,
     <<<<"A">>, <<"X">>, <<"$", "1", ".", "5">>, <<"1">>, <<"1">>, <<"1">>>>,
     <<<<"A">>>>,
     <<>>}

\* Whole RVU tables: the full header, the header with one column removed,
\* other column names, and a file without a header row.
RvuTables ==
    {<<<<<<"C", "P", "T", "/", "H", "C", "P", "C", "S">>, <<"D", "e", "s", "c", "r", "i", "p", "t", "i", "o", "n">>, <<"W", "o", "r", "k", " ", "R", "V", "U">>, <<"P", "E", " ", "R", "V", "U", " ", "F", "a", "c", "i", "l", "i", "t", "y">>, <<"P", "E", " ", "R", "V", "U", " ", "N", "o", "n", "-", "F", "a", "c", "i", "l", "i", "t", "y">>, <<"M", "P", " ", "R", "V", "U">>>>,
       <<<<"A">>, <<"X">>, <<"1">>, <<"1">>, <<"1">>, <<"1">>>>,
       <<<<"A">>, <<"Y">>, <<"-", "1">>, <<"2">>, <<"2">>, <<"2">>>>>>,
     <<<<<<"D", "e", "s", "c", "r", "i", "p", "t", "i", "o", "n">>, <<"W", "o", "r", "k", " ", "R", "V", "U">>, <<"P", "E", " ", "R", "V", "U", " ", "F", "a", "c", "i", "l", "i", "t", "y">>, <<"P", "E", " ", "R", "V", "U", " ", "N", "o", "n", "-", "F", "a", "c", "i", "l", "i", "t", "y">>, <<"M", "P", " ", "R", "V", "U">>>>,
       <<<<"X">>, <<"1">>, <<"1">>, <<"1">>, <<"1">>>>,
       <<<<"Y">>, <<"-", "1">>, <<"2">>, <<"2">>, <<"2">>>>>>,
     <<<<<<"C", "P", "T", "/", "H", "C", "P", "C", "S">>, <<"W", "o", "r", "k", " ", "R", "V", "U">>, <<"P", "E", " ", "R", "V", "U", " ", "F", "a", "c", "i", "l", "i", "t", "y">>, <<"P", "E", " ", "R", "V", "U", " ", "N", "o", "n", "-", "F", "a", "c", "i", "l", "i", "t", "y">>, <<"M", "P", " ", "R", "V", "U">>>>,
       <<<<"A">>, <<"1">>, <<"1">>, <<"1">>, <<"1">>>>,
       <<<<"A">>, <<"-", "1">>, <<"2">>, <<"2">>, <<"2">>>>>>,
     <<<<<<"C", "P", "T", "/", "H", "C", "P", "C", "S">>, <<"D", "e", "s", "c", "r", "i", "p", "t", "i", "o", "n">>, <<"P", "E", " ", "R", "V", "U", " ", "F", "a", "c", "i", "l", "i", "t", "y">>, <<"P", "E", " ", "R", "V", "U", " ", "N", "o", "n", "-", "F", "a", "c", "i", "l", "i", "t", "y">>, <<"M", "P", " ", "R", "V", "U">>>>,
       <<<<"A">>, <<"X">>, <<"1">>, <<"1">>, <<"1">>>>,
       <<<<"A">>, <<"Y">>, <<"2">>, <<"2">>, <<"2">>>>>>,
     <<<<<<"C", "P", "T", "/", "H", "C", "P", "C", "S">>, <<"D", "e", "s", "c", "r", "i", "p", "t", "i", "o", "n">>, <<"W", "o", "r", "k", " ", "R", "V", "U">>, <<"P", "E", " ", "R", "V", "U", " ", "N", "o", "n", "-", "F", "a", "c", "i", "l", "i", "t", "y">>, <<"M", "P", " ", "R", "V", "U">>>>,
       <<<<"A">>, <<"X">>, <<"1">>, <<"1">>, <<"1">>>>,
       <<<<"A">>, <<"Y">>, <<"-", "1">>, <<"2">>, <<"2">>>>>>,
     <<<<<<"C", "P", "T", "/", "H", "C", "P", "C", "S">>, <<"D", "e", "s", "c", "r", "i", "p", "t", "i", "o", "n">>, <<"W", "o", "r", "k", " ", "R", "V", "U">>, <<"P", "E", " ", "R", "V", "U", " ", "F", "a", "c", "i", "l", "i", "t", "y">>, <<"M", "P", " ", "R", "V", "U">>>>,
       <<<<"A">>, <<"X">>, <<"1">>, <<"1">>, <<"1">>>>,
       <<<<"A">>, <<"Y">>, <<"-", "1">>, <<"2">>, <<"2">>>>>>,
     <<<<<<"C", "P", "T", "/", "H", "C", "P", "C", "S">>, <<"D", "e", "s", "c", "r", "i", "p", "t", "i", "o", "n">>, <<"W", "o", "r", "k", " ", "R", "V", "U">>, <<"P", "E", " ", "R", "V", "U", " ", "F", "a", "c", "i", "l", "i", "t", "y">>, <<"P", "E", " ", "R", "V", "U", " ", "N", "o", "n", "-", "F", "a", "c", "i", "l", "i", "t", "y">>>>,
       <<<<"A">>, <<"X">>, <<"1">>, <<"1">>, <<"1">>>>,
       <<<<"A">>, <<"Y">>, <<"-", "1">>, <<"2">>, <<"2">>>>>>,
     <<<<<<"H", "C", "P", "C", "S">>, <<"D", "E", "S", "C", "R", "I", "P", "T", "I", "O", "N">>, <<"W", "O", "R", "K", " ", "R", "V", "U">>, <<"N", "O", "N", "-", "F", "A", "C", " ", "P", "E", " ", "R", "V", "U">>, <<"F", "A", "C", "I", "L", "I", "T", "Y", " ", "P", "E", " ", "R", "V", "U">>, <<"M", "P", " ", "R", "V", "U">>>>,
       <<<<"A">>, <<"X">>, <<"1">>, <<"2">>, <<"3">>, <<"1">>>>>>,
     <<>>}

GPCI_HEADER == <<<<"S", "t", "a", "t", "e">>, <<"L", "o", "c", "a", "l", "i", "t", "y", " ", "N", "u", "m", "b", "e", "r">>, <<"L", "o", "c", "a", "l", "i", "t", "y", " ", "N", "a", "m", "e">>, <<"P", "W", " ", "G", "P", "C", "I">>, <<"P", "E", " ", "G", "P", "C", "I">>, <<"M", "P", " ", "G", "P", "C", "I">>>>
GPCI_HEADER_OLD == <<<<"M", "e", "d", "i", "c", "a", "r", "e", " ", "A", "d", "m", "i", "n", "i", "s", "t", "r", "a", "t", "i", "v", "e", " ", "C", "o", "n", "t", "r", "a", "c", "t", "o", "r">>, <<"L", "o", "c", "a", "l", "i", "t", "y", " ", "N", "u", "m", "b", "e", "r">>, <<"L", "o", "c", "a", "l", "i", "t", "y", " ", "N", "a", "m", "e">>, <<"P", "W", " ", "G", "P", "C", "I">>, <<"P", "E", " ", "G", "P", "C", "I">>, <<"M", "P", " ", "G", "P", "C", "I">>>>

\* Data rows of a GPCI table: the first cell is the state or the contractor.
GpciRows ==
    {<<<<"U", "T">>, <<"0", "9">>, <<"U", "t", "a", "h">>, <<"1">>, <<"1">>, <<"1">>>>,
     <<<<"U", "T">>, <<"9">>, <<"U", "t", "a", "h">>, <<"2">>, <<"2">>, <<"2">>>>,
     <<<<"A", "L">>, <<"0", "0">>, <<"A", "l", "a", "b", "a", "m", "a">>, <<"1">>, <<"1">>, <<"1">>>>,
     <<<<"U", "T">>, <<"0", "9">>, <<"U", "t", "a", "h">>, <<"1">>, <<>>, <<"1">>>>,
     <<<<"U", "T">>, <<"0", "9">>, <<"U", "t", "a", "h">>, <<"x">>, <<"1">>, <<"1">>>>,
     <<<<"U", "T">>, <<"0", "9">>, <<"U", "t", "a", "h">>, <<"1">>, <<"1">>, <<"-">>>>,
     <<<<>>, <<"0", "9">>, <<"U", "t", "a", "h">>, <<"1">>, <<>>, <<"1">>>>,
     <<<<"S", "t", "a", "t", "e">>, <<"L", "o", "c", "a", "l", "i", "t", "y", " ", "N", "u", "m", "b", "e", "r">>, <<"L", "o", "c", "a", "l", "i", "t", "y", " ", "N", "a", "m", "e">>, <<"P", "W", " ", "G", "P", "C", "I">>, <<"P", "E", " ", "G", "P", "C", "I">>, <<"M", "P", " ", "G", "P", "C", "I">>>>,
     <<<<"U", "T">>, <<>>, <<"U", "t", "a", "h">>, <<"1">>, <<"1">>, <<"1">>>>,
     <<<<"U", "T">>, <<"0", "9">>, <<>>, <<"1">>, <<>>, <<"1">>>>,
     <<>>,
     <<<<"U", "T">>, <<"0", "9">>, <<"U", "t", "a", "h">>>>,
     <<<<"U", "T">>, <<"0", "9">>, <<"U", "t", "a", "h">>, <<"-", "1">>, <<"1">>, <<"1">>>>}

\* Whole GPCI tables: a preamble, a header on two lines, no header, and index
\* columns whose names has_gpci_cols accepts and find_column does not.
GpciTables ==
    {<<<<<<"T", "i", "t", "l", "e">>>>,
       <<>>,
       <<<<"S", "t", "a", "t", "e">>, <<"L", "o", "c", "a", "l", "i", "t", "y", " ", "N", "u", "m", "b", "e", "r">>, <<"L", "o", "c", "a", "l", "i", "t", "y", " ", "N", "a", "m", "e">>, <<"P", "W", " ", "G", "P", "C", "I">>, <<"P", "E", " ", "G", "P", "C", "I">>, <<"M", "P", " ", "G", "P", "C", "I">>>>,
       <<<<"U", "T">>, <<"0", "9">>, <<"U", "t", "a", "h">>, <<"1">>, <<"1">>, <<"1">>>>,
       <<<<"U", "T">>, <<"1", "0">>, <<"U", "t", "a", "h">>, <<"1">>, <<>>, <<"1">>>>>>,
     <<<<<<"T", "i", "t", "l", "e">>>>,
       <<<<"M", "A", "C">>, <<"L", "o", "c", "a", "l", "i", "t", "y", " ", "N", "u", "m", "b", "e", "r">>, <<"L", "o", "c", "a", "l", "i", "t", "y", " ", "N", "a", "m", "e">>, <<"2", "0", "1", "9">>, <<"2", "0", "1", "9">>, <<"2", "0", "1", "9">>>>,
       <<<<>>, <<>>, <<>>, <<"P", "W", " ", "G", "P", "C", "I">>, <<"P", "E", " ", "G", "P", "C", "I">>, <<"M", "P", " ", "G", "P", "C", "I">>>>,
       <<<<"1">>, <<"0", "9">>, <<"U", "t", "a", "h">>, <<"1">>, <<"1">>, <<"1">>>>,
       <<<<"1">>, <<"1", "0">>, <<"U", "t", "a", "h">>, <<"1">>, <<>>, <<"1">>>>>>,
     <<<<<<"L", "o", "c", "a", "l", "i", "t", "y", " ", "N", "u", "m", "b", "e", "r">>, <<"L", "o", "c", "a", "l", "i", "t", "y", " ", "N", "a", "m", "e">>, <<"x">>>>,
       <<<<"0", "9">>, <<"U", "t", "a", "h">>, <<"1">>>>>>,
     <<>>,
     <<<<<<"S", "t", "a", "t", "e">>, <<"L", "o", "c", "a", "l", "i", "t", "y", " ", "N", "u", "m", "b", "e", "r">>, <<"L", "o", "c", "a", "l", "i", "t", "y", " ", "N", "a", "m", "e">>, <<"G", "P", "C", "I", " ", "P", "W">>, <<"P", "E", " ", "G", "P", "C", "I">>, <<"M", "P", " ", "G", "P", "C", "I">>>>,
       <<<<"U", "T">>, <<"0", "9">>, <<"U", "t", "a", "h">>, <<"1">>, <<"1">>, <<"1">>>>>>,
     <<<<<<"S", "t", "a", "t", "e">>, <<"L", "o", "c", "a", "l", "i", "t", "y", " ", "N", "u", "m", "b", "e", "r">>, <<"L", "o", "c", "a", "l", "i", "t", "y", " ", "N", "a", "m", "e">>, <<"P", "W", " ", "G", "P", "C", "I">>, <<"G", "P", "C", "I", " ", "P", "E">>, <<"M", "P", " ", "G", "P", "C", "I">>>>,
       <<<<"U", "T">>, <<"0", "9">>, <<"U", "t", "a", "h">>, <<"1">>, <<"1">>, <<"1">>>>>>,
     <<<<<<"S", "t", "a", "t", "e">>, <<"L", "o", "c", "a", "l", "i", "t", "y", " ", "N", "u", "m", "b", "e", "r">>, <<"L", "o", "c", "a", "l", "i", "t", "y", " ", "N", "a", "m", "e">>, <<"P", "W", " ", "G", "P", "C", "I">>, <<"P", "E", " ", "G", "P", "C", "I">>, <<"G", "P", "C", "I", " ", "M", "P">>>>,
       <<<<"U", "T">>, <<"0", "9">>, <<"U", "t", "a", "h">>, <<"1">>, <<"1">>, <<"1">>>>>>}

\* Tables without a state column, the state to be read off the names: a
\* suffix behind a comma, no state at all, a state name with an asterisk, a
\* suffix of more than two letters, a suffix with a digit, a state name among
\* other words.
GpciNamedTables ==
    {<<GPCI_HEADER_OLD,
       <<<<"1">>, <<"0", "1">>, <<"A", "n", "y", "t", "o", "w", "n", ",", " ", "u", "t", "*", "*">>, <<"1">>, <<"1">>, <<"1">>>>,
       <<<<"1">>, <<"0", "2">>, <<"N", "o", "w", "h", "e", "r", "e">>, <<"1">>, <<"1">>, <<"1">>>>,
       <<<<"1">>, <<"0", "3">>, <<" ", "U", "t", "a", "h", "*", " ">>, <<"1">>, <<"1">>, <<"1">>>>>>,
     <<GPCI_HEADER_OLD,
       <<<<"1">>, <<"A", "1">>, <<"P", "o", "r", "t", "l", "a", "n", "d", ",", " ", "O", "r", "e", "g", "o", "n">>, <<"1">>, <<"1">>, <<"1">>>>,
       <<<<"1">>, <<"5", ".", "0">>, <<"S", "a", "l", "t", " ", "L", "a", "k", "e", ",", " ", "U", "1">>, <<"1">>, <<"1">>, <<"1">>>>,
       <<<<"1">>, <<"0", "6">>, <<"R", "e", "s", "t", " ", "o", "f", " ", "N", "e", "w", " ", " ", "Y", "o", "r", "k">>, <<"1">>, <<"1">>, <<"1">>>>>>}

RVU_JSON == <<"o", "u", "t", "/", "r", "v", "u", ".", "j", "s", "o", "n">>
GPCI_JSON == <<"o", "u", "t", "/", "G", "P", "C", "I", ".", "j", "s", "o", "n">>
IN_CSV == <<"i", "n", ".", "c", "s", "v">>

\* What an earlier run left at the output path: an empty table.
OldJson == FileWith(<< <<>> >>)

JsonStates == {<<FALSE, AbsentFile>>, <<TRUE, OldJson>>}

\* An RVU table with the usual header and any rows.
InitRvuData ==
    \E rows \in SeqsUpTo(RvuRows, MaxRows) :
        /\ sys_argv = <<IN_CSV, RVU_JSON>>
        /\ csv_file = CsvFile(<<RVU_HEADER>> \o rows)
        /\ json_dir = FALSE
        /\ json_file = AbsentFile

\* A GPCI table with a state column or a contractor column and any rows.
InitGpciData ==
    \E h \in {GPCI_HEADER, GPCI_HEADER_OLD}, rows \in SeqsUpTo(GpciRows, MaxRows) :
        /\ sys_argv = <<IN_CSV, GPCI_JSON>>
        /\ csv_file = CsvFile(<<h>> \o rows)
        /\ json_dir = FALSE
        /\ json_file = AbsentFile

\* Other command lines and files; the output absent or left by an earlier run.
InitEdgeTables ==
    \E o \in JsonStates :
        /\ json_dir = o[1]
        /\ json_file = o[2]
        /\ \/ /\ sys_argv \in {<<>>, <<IN_CSV>>}
              /\ csv_file = CsvFile(<<RVU_HEADER>>)
           \/ /\ sys_argv \in {<<IN_CSV, RVU_JSON>>, <<IN_CSV, GPCI_JSON>>}
              /\ csv_file \in {NoCsv, UnreadableCsv}
           \/ /\ sys_argv = <<IN_CSV, RVU_JSON>>
              /\ csv_file \in {CsvFile(t) : t \in RvuTables}
           \/ /\ sys_argv = <<IN_CSV, GPCI_JSON>>
              /\ csv_file \in {CsvFile(t) : t \in GpciTables \cup GpciNamedTables}

InitNormalizer ==
    /\ InitRvuData \/ InitGpciData \/ InitEdgeTables
    /\ json_prev = json_file
    /\ NormalizerEntry
    /\ MergerIdle
    /\ ResolverIdle
    /\ LocatorIdle
    /\ BuilderIdle

SpecNormalizer == InitNormalizer /\ [][NextNormalizer]_vars

\* ---------------------------------------------------- specification: locator
\* Rows of a GPCI export: a title, the anchors alone (with an empty cell, a
\* year and a single digit where the indices will stand), the anchors in two
\* cells, a header on one line, second header lines of seven, three and two
\* cells, and a data row.
HL_TITLE == <<<<"T", "i", "t", "l", "e">>>>
HL_ANCHORS == <<<<"L", "o", "c", "a", "l", "i", "t", "y", " ", "N", "u", "m", "b", "e", "r">>, <<"L", "o", "c", "a", "l", "i", "t", "y", " ", "N", "a", "m", "e", " ">>, <<>>, <<"2", "0", "2", "4">>, <<"G", "A", "F">>, <<"7">>>>
HL_ANCHORS_SHORT == <<<<"L", "o", "c", "a", "l", "i", "t", "y", " ", "N", "u", "m", "b", "e", "r">>, <<"L", "o", "c", "a", "l", "i", "t", "y", " ", "N", "a", "m", "e">>>>
HL_HEADER == <<<<"L", "o", "c", "a", "l", "i", "t", "y", " ", "N", "u", "m", "b", "e", "r">>, <<"L", "o", "c", "a", "l", "i", "t", "y", " ", "N", "a", "m", "e">>, <<"P", "W", " ", "G", "P", "C", "I">>, <<"P", "E", " ", "G", "P", "C", "I">>, <<"M", "P", " ", "G", "P", "C", "I">>>>
HL_INDICES == <<<<>>, <<"N", "a", "m", "e", "2">>, <<" ", "P", "W", " ", "G", "P", "C", "I", " ">>, <<"P", "E", " ", "G", "P", "C", "I">>, <<"M", "P", " ", "G", "P", "C", "I">>, <<>>, <<"E", "x", "t", "r", "a">>>>
HL_INDICES_THREE == <<<<"P", "W", " ", "G", "P", "C", "I">>, <<"P", "E", " ", "G", "P", "C", "I">>, <<"M", "P", " ", "G", "P", "C", "I">>>>
HL_INDICES_SHORT == <<<<"P", "W", " ", "G", "P", "C", "I", " ", "P", "E", " ", "G", "P", "C", "I">>, <<"M", "P", " ", "G", "P", "C", "I">>>>
HL_DATA == <<<<"0", "9">>, <<"U", "t", "a", "h">>, <<"1">>, <<"1">>, <<"1">>>>

LocatorRows ==
    {<<>>, HL_TITLE, HL_ANCHORS, HL_ANCHORS_SHORT, HL_HEADER, HL_INDICES,
     HL_INDICES_THREE, HL_INDICES_SHORT, HL_DATA}

\* n empty rows.
Padding(n) == [j \in 1..n |-> <<>>]

\* Tables whose header stands at the end of the window of MAX_SCAN rows or
\* just behind it.
PaddedTables ==
    {Padding(n) \o t : n \in {MAX_SCAN - 2, MAX_SCAN - 1, MAX_SCAN},
                       t \in SeqsUpTo({HL_ANCHORS, HL_HEADER, HL_INDICES}, 2)}

InitLocator ==
    /\ hl_rows \in SeqsUpTo(LocatorRows, MaxTableRows) \cup PaddedTables
    /\ hl_i = 0
    /\ hl_anchor = {}
    /\ hl_cont = {}
    /\ hl_result = None
    /\ hl_pc = "scan"
    /\ MergerIdle
    /\ ResolverIdle
    /\ NormalizerIdle
    /\ BuilderIdle

\* Line 220.
scan_limit == IF MAX_SCAN < Len(hl_rows) THEN MAX_SCAN ELSE Len(hl_rows)

\* One pass of the loop of lines 228-259.
LocatorRow ==
    /\ hl_pc = "scan"
    /\ hl_i < scan_limit
    /\ LET row == hl_rows[hl_i + 1]
           Continue == hl_i' = hl_i + 1 /\ UNCHANGED <<hl_result, hl_pc>>
           Return(info) == hl_result' = Some(info) /\ hl_pc' = "done" /\ UNCHANGED hl_i
       IN IF ~RowScannable(row)
          THEN Continue /\ UNCHANGED <<hl_anchor, hl_cont>>
          ELSE \E cells \in {NormCells(row)} :
               /\ hl_anchor' = hl_anchor \cup {hl_i}
               /\ IF ~HasLocalityAnchors(cells)
                  THEN Continue /\ UNCHANGED hl_cont
                  ELSE IF has_gpci_cols(cells)
                  THEN Return(HeaderInfo(hl_i, 1, row, hl_i + 1)) /\ UNCHANGED hl_cont
                  ELSE IF hl_i + 1 < scan_limit /\ RowScannable(hl_rows[hl_i + 2])
                  THEN /\ hl_cont' = hl_cont \cup {hl_i + 1}
                       /\ IF has_gpci_cols(NormCells(hl_rows[hl_i + 2]))
                          THEN Return(HeaderInfo(hl_i, 2,
                                                 MergeHeaderRows(row, hl_rows[hl_i + 2]),
                                                 hl_i + 2))
                          ELSE Continue
                  ELSE Continue /\ UNCHANGED hl_cont
    /\ UNCHANGED <<hl_rows, not_locator>>

\* Line 261: the window is exhausted, the function returns None.
LocatorExhausted ==
    /\ hl_pc = "scan"
    /\ hl_i >= scan_limit
    /\ hl_pc' = "done"
    /\ UNCHANGED <<hl_rows, hl_i, hl_anchor, hl_cont, hl_result, not_locator>>

NextLocator == LocatorRow \/ LocatorExhausted

SpecLocator == InitLocator /\ [][NextLocator]_vars

\* The loop, step by step, returns what extract_gpci_headers returns.
LocatorAgrees == hl_pc = "done" => hl_result = extract_gpci_headers(hl_rows)

\* ============================================================ build_all_data.py
\* The two file mappings RVU_FILES and GPCI_FILES, by the name of the phase
\* that parses them, and their years in sorted() order.
Kinds == {"rvu", "gpci"}
BuildYears == 1..MaxBuildYears

\* A file of OUTPUT_DIR: not there, there since before the run, or written
\* by a command of this run; "partial" is a timeline the merger was still
\* writing when it failed, "bad" a metadata.json that json.load() or
\* metadata.update() raises on.
ParsedFiles == [BuildYears -> {"absent", "old"}]

\* The exit statuses of parse_cms_data.py (0, or 1 from sys.exit(1) and from
\* an uncaught exception).
ParseCodes == {0, 1}

\* The exit statuses of build_rvu_timeline.py: --year is required, so a
\* command line without one ends in argparse's status 2.
TimelineCodes(years) == IF years = {} THEN {2} ELSE {0, 1, 2}

\* Lines 58-69: run_command returns True when the command exited with 0.
run_command(returncode) == returncode = 0

\* Variant: the loop parses every year whose source file exists.
ShouldParseExisting(source_exists, output) == source_exists

\* Lines 83-90: the loop runs a command for the year only when the source
\* file exists and the output file does not.
ShouldParse(source_exists, output) == source_exists /\ output = "absent"

InitBuilder ==
    /\ b_dirs \in SUBSET Kinds
    /\ b_sources \in [Kinds -> SUBSET BuildYears]
    /\ \A k \in Kinds \ b_dirs : b_sources[k] = {}
    /\ b_files \in [rvu : ParsedFiles, gpci : ParsedFiles,
                    timeline : {"absent", "old"}, metadata : {"absent", "old", "bad"}]
    /\ b_pc = "main"
    /\ b_year = 0
    /\ b_ran = <<>>
    /\ b_phases = <<>>
    /\ b_exit = None
    /\ MergerIdle
    /\ ResolverIdle
    /\ NormalizerIdle
    /\ LocatorIdle

\* `return 1` of main(), and `return False` of a phase followed by it.
BuildFailed ==
    /\ b_exit' = Some(1)
    /\ b_pc' = "done"

\* main() calls the next phase, which prints its banner.
EnterPhase(phase) ==
    /\ b_pc' = phase
    /\ b_year' = 0
    /\ b_phases' = Append(b_phases, phase)

\* Lines 215-233: the source directories are verified, OUTPUT_DIR is made
\* and parse_rvu_files() is called.
MainVerify ==
    /\ b_pc = "main"
    /\ IF b_dirs # Kinds
       THEN BuildFailed /\ UNCHANGED <<b_year, b_phases>>
       ELSE EnterPhase("rvu") /\ UNCHANGED b_exit
    /\ UNCHANGED <<b_dirs, b_sources, b_files, b_ran, not_builder>>

\* One pass of the loop of parse_rvu_files (lines 78-101) or of
\* parse_gpci_files (lines 113-136).
ParseYear(kind) ==
    /\ b_year < MaxBuildYears
    /\ LET year == b_year + 1 IN
       IF ~ShouldParse(year \in b_sources[kind], b_files[kind][year])
       THEN b_year' = year /\ UNCHANGED <<b_files, b_ran, b_pc, b_exit>>
       ELSE \E returncode \in ParseCodes :
            /\ b_ran' = Append(b_ran, [phase |-> kind, years |-> {year},
                                       returncode |-> returncode])
            /\ IF run_command(returncode)
               THEN /\ b_files' = [b_files EXCEPT ![kind][year] = "new"]
                    /\ b_year' = year
                    /\ UNCHANGED <<b_pc, b_exit>>
               ELSE BuildFailed /\ UNCHANGED <<b_files, b_year>>
    /\ UNCHANGED <<b_dirs, b_sources, b_phases, not_builder>>

\* parse_rvu_files is at the head of its loop.
ParseRvuFile ==
    /\ b_pc = "rvu"
    /\ ParseYear("rvu")

\* parse_gpci_files is at the head of its loop.
ParseGpciFile ==
    /\ b_pc = "gpci"
    /\ ParseYear("gpci")

\* Lines 103-104 and 237: the loop of parse_rvu_files is over, it returns
\* True and main() calls parse_gpci_files().
ParseRvuFilesDone ==
    /\ b_pc = "rvu"
    /\ b_year = MaxBuildYears
    /\ EnterPhase("gpci")
    /\ UNCHANGED <<b_dirs, b_sources, b_files, b_ran, b_exit, not_builder>>

\* Lines 138-139 and 241.
ParseGpciFilesDone ==
    /\ b_pc = "gpci"
    /\ b_year = MaxBuildYears
    /\ EnterPhase("timeline")
    /\ UNCHANGED <<b_dirs, b_sources, b_files, b_ran, b_exit, not_builder>>

\* Lines 142-166 and 245: the merger is run on the per-year RVU files that
\* exist.
BuildTimeline ==
    /\ b_pc = "timeline"
    /\ \E years \in {{y \in BuildYears : b_files.rvu[y] # "absent"}} :
       \E returncode \in TimelineCodes(years) :
         /\ b_ran' = Append(b_ran, [phase |-> "timeline", years |-> years,
                                    returncode |-> returncode])
         /\ IF run_command(returncode)
            THEN /\ b_files' = [b_files EXCEPT !.timeline = "new"]
                 /\ EnterPhase("metadata")
                 /\ UNCHANGED b_exit
            ELSE /\ BuildFailed
                 /\ \E left \in {b_files.timeline, "partial"} :
                       b_files' = [b_files EXCEPT !.timeline = left]
                 /\ UNCHANGED <<b_year, b_phases>>
    /\ UNCHANGED <<b_dirs, b_sources, not_builder>>

\* Lines 169-211 and 249-264: metadata.json is loaded, updated and written,
\* and main() returns 0; an exception of json.load or of metadata.update is
\* not caught and ends the run with status 1 before the file is opened for
\* writing.
UpdateMetadata ==
    /\ b_pc = "metadata"
    /\ IF b_files.metadata = "bad"
       THEN BuildFailed /\ UNCHANGED b_files
       ELSE /\ b_files' = [b_files EXCEPT !.metadata = "new"]
            /\ b_exit' = Some(0)
            /\ b_pc' = "done"
    /\ UNCHANGED <<b_dirs, b_sources, b_year, b_ran, b_phases, not_builder>>

NextBuilder ==
    \/ MainVerify
    \/ ParseRvuFile
    \/ ParseRvuFilesDone
    \/ ParseGpciFile
    \/ ParseGpciFilesDone
    \/ BuildTimeline
    \/ UpdateMetadata

SpecBuilder == InitBuilder /\ [][NextBuilder]_vars

\* =================================================================== claims
\* What the command line and the files say, read off the inputs alone.

\* The pairs given for year y, by position on the command line.
SuppliedFor(y) == {i \in 1..Len(args.year) : args.year[i].year = y}

\* The snapshot of the file at pair i.
SnapshotAt(i) == validate_year_snapshot(fs[args.year[i].path])

\* The snapshot supplied for year y (the last one when y is given twice).
SnapshotFor(y) ==
    SnapshotAt(CHOOSE i \in SuppliedFor(y) : \A j \in SuppliedFor(y) : j <= i)

InYear(code, y) == SuppliedFor(y) # {} /\ code \in DOMAIN SnapshotFor(y)

RecordIn(code, y) == SnapshotFor(y)[code]

RangeValid ==
    \/ args.years.form = "single"
    \/ args.years.form = "range" /\ args.years.start <= args.years.end

RangeReversed == args.years.form = "range" /\ args.years.end < args.years.start

InputsUsable == RangeValid /\ \A i \in 1..Len(args.year) : ValidateOk(fs[args.year[i].path])

Succeeded == pc = "done" /\ exit_code = Some(0)

CodeChunks(file) ==
    LET IsCode(ch) == ch.part = "code" IN SelectSeq(file.content, IsCode)

SlotFields == {"work_rvu", "pe_rvu_fac", "pe_rvu_nonfac", "mp_rvu", "status"}

AllNull(e, i) == \A f \in SlotFields : e[f][i] = None
AllSet(e, i) == \A f \in SlotFields : IsSome(e[f][i])

\* The document a successful run left in the output file: the entries of
\* "codes" in file order, and meta.years.
Emitted ==
    IF Succeeded
    THEN LET cc == CodeChunks(out_file) IN [i \in 1..Len(cc) |-> cc[i].codes[1]]
    ELSE <<>>

EmittedYears == IF Succeeded THEN out_file.content[1].meta[1].years ELSE <<>>

\* Index of the closest earlier output year in which the code is present, or 0.
PrevPresentIdx(code, i) ==
    LET earlier == {j \in 1..(i - 1) : InYear(code, EmittedYears[j])}
    IN IF earlier = {} THEN 0 ELSE CHOOSE j \in earlier : \A h \in earlier : h <= j

\* Two values differ by more than the tolerance; values that are not finite
\* differ unless they are exactly equal.
DiffersBeyond(a, b, tol) ==
    IF a.k = "fin" /\ b.k = "fin"
    THEN (a.v - b.v > tol) \/ (b.v - a.v > tol)
    ELSE ~(a.k = "inf" /\ b.k = "inf")

RecordChanged(p, r, tol) ==
    \/ \E f \in REQUIRED_RVU_FIELDS \ {"desc"} : DiffersBeyond(p[f], r[f], tol)
    \/ p.desc # r.desc

\* C1  First appearance: in every emitted entry the first output year whose status
\* is not null has status "new".
FirstAppearanceIsNew ==
    \A n \in 1..Len(Emitted) :
        LET st == Emitted[n].entry.status IN
        \A i \in 1..Len(st) :
            (IsSome(st[i]) /\ \A j \in 1..(i - 1) : ~IsSome(st[j])) => st[i] = Some("new")

FirstAppearanceWitness ==
    /\ Succeeded
    /\ \E n \in 1..Len(Emitted) :
          LET st == Emitted[n].entry.status IN
          /\ Len(st) >= 2
          /\ st[1] = None
          /\ \E i \in 2..Len(st) : st[i] = Some("new")

\* C2  Gap integrity: at every output year the five slots of an entry are
\* all set when the code is in the snapshot supplied for that year, and all
\* null when it is not or when no snapshot was supplied for the year.
GapIntegrity ==
    \A n \in 1..Len(Emitted) :
        LET e == Emitted[n].entry IN
        /\ \A f \in SlotFields :
              Len(e[f]) = Len(EmittedYears)
        /\ \A i \in 1..Len(EmittedYears) :
              IF InYear(Emitted[n].code, EmittedYears[i])
              THEN AllSet(e, i)
              ELSE AllNull(e, i)

GapIntegrityWitness ==
    /\ Succeeded
    /\ \E n \in 1..Len(Emitted) :
          LET e == Emitted[n].entry IN
          \E i, j, h \in 1..Len(EmittedYears) :
              /\ i < j /\ j < h
              /\ AllSet(e, i) /\ AllNull(e, j) /\ AllSet(e, h)
              /\ SuppliedFor(EmittedYears[j]) # {}

\* C3  Status classification: a year with an earlier present output year is
\* "modified" exactly when a component differs by more than the tolerance
\* from, or the description differs from, the record of the closest earlier
\* present output year; otherwise it is "existing".
StatusClassification ==
    \A n \in 1..Len(Emitted) :
        LET c == Emitted[n].code
            st == Emitted[n].entry.status IN
        \A i \in 1..Len(EmittedYears) :
            LET j == PrevPresentIdx(c, i) IN
            (InYear(c, EmittedYears[i]) /\ j # 0) =>
                st[i] = Some(IF RecordChanged(RecordIn(c, EmittedYears[j]),
                                              RecordIn(c, EmittedYears[i]),
                                              args.float_tol)
                             THEN "modified"
                             ELSE "existing")

StatusClassificationWitness ==
    /\ Succeeded
    /\ \E n \in 1..Len(Emitted) :
          LET st == Emitted[n].entry.status
              c == Emitted[n].code IN
          \E i, j, h \in 1..Len(EmittedYears) :
              /\ i < j /\ j < h
              /\ st[i] = Some("new") /\ st[j] = None /\ st[h] = Some("modified")
              /\ RecordIn(c, EmittedYears[i]).desc = RecordIn(c, EmittedYears[h]).desc

\* C4  Tolerance boundary: with equal descriptions and finite components,
\* one component differing by exactly the tolerance (the others equal) gives
\* "existing", and a component differing by more gives "modified".
ToleranceBoundary ==
    \A n \in 1..Len(Emitted) :
        LET c == Emitted[n].code
            st == Emitted[n].entry.status IN
        \A i \in 1..Len(EmittedYears) :
            LET j == PrevPresentIdx(c, i) IN
            (InYear(c, EmittedYears[i]) /\ j # 0) =>
                LET p == RecordIn(c, EmittedYears[j])
                    r == RecordIn(c, EmittedYears[i])
                    comps == REQUIRED_RVU_FIELDS \ {"desc"}
                    Gap(f) == Abs(p[f].v - r[f].v)
                IN (p.desc = r.desc /\ \A f \in comps : p[f].k = "fin" /\ r[f].k = "fin") =>
                      /\ (\E f \in comps :
                             /\ Gap(f) = args.float_tol
                             /\ \A g \in comps \ {f} : Gap(g) = 0)
                         => st[i] = Some("existing")
                      /\ (\E f \in comps : Gap(f) > args.float_tol)
                         => st[i] = Some("modified")

ToleranceBoundaryWitness ==
    /\ Succeeded
    /\ args.float_tol = 1
    /\ \E n \in 1..Len(Emitted) :
          LET e == Emitted[n].entry IN
          \E i, j \in 2..Len(EmittedYears) :
              /\ IsSome(e.status[i - 1]) /\ IsSome(e.status[j - 1])
              /\ e.status[i] = Some("existing")
              /\ \E f \in REQUIRED_RVU_FIELDS \ {"desc"} :
                    e[f][i][1].k = "fin" /\ e[f][i - 1][1].k = "fin"
                      /\ Abs(e[f][i][1].v - e[f][i - 1][1].v) = 1
              /\ e.status[j] = Some("modified")
              /\ \E f \in REQUIRED_RVU_FIELDS \ {"desc"} :
                    e[f][j][1].k = "fin" /\ e[f][j - 1][1].k = "fin"
                      /\ Abs(e[f][j][1].v - e[f][j - 1][1].v) = 2

\* Years in which some supplied snapshot holds the code.
YearsHolding(code) ==
    {args.year[i].year : i \in {h \in 1..Len(args.year) : code \in DOMAIN SnapshotAt(h)}}

LatestYearHolding(code) ==
    CHOOSE y \in YearsHolding(code) : \A z \in YearsHolding(code) : z <= y

\* C5  Canonical description: the desc of every entry is the description
\* the code carries in the chronologically latest year in which a supplied
\* snapshot holds it, inside the requested range or not.
CanonicalIsLatest ==
    \A n \in 1..Len(Emitted) :
        LET c == Emitted[n].code IN
        Emitted[n].entry.desc \in
            {SnapshotAt(i)[c].desc :
                i \in {h \in 1..Len(args.year) :
                          /\ args.year[h].year = LatestYearHolding(c)
                          /\ c \in DOMAIN SnapshotAt(h)}}

\* C6 as stated  Overrides: a present output year is a key of
\* desc_overrides, mapped to its description, exactly when that description
\* differs from the entry's desc.
OverridesIffDiffers ==
    \A n \in 1..Len(Emitted) :
        LET c == Emitted[n].code
            e == Emitted[n].entry IN
        \A i \in 1..Len(EmittedYears) :
            LET y == EmittedYears[i] IN
            InYear(c, y) =>
                ((y \in DOMAIN e.desc_overrides /\ e.desc_overrides[y] = RecordIn(c, y).desc)
                    <=> RecordIn(c, y).desc # e.desc)

\* C6 amended  Overrides: a present output year is a key of desc_overrides,
\* mapped to its description, exactly when that description and the entry's
\* desc are both non-empty and differ; no other year is a key.
OverridesIffBothNonEmptyAndDiffer ==
    \A n \in 1..Len(Emitted) :
        LET c == Emitted[n].code
            e == Emitted[n].entry IN
        /\ DOMAIN e.desc_overrides \subseteq
              {y \in SeqToSet(EmittedYears) : InYear(c, y)}
        /\ \A i \in 1..Len(EmittedYears) :
              LET y == EmittedYears[i] IN
              InYear(c, y) =>
                  ((y \in DOMAIN e.desc_overrides
                      /\ e.desc_overrides[y] = RecordIn(c, y).desc)
                   <=> (/\ RecordIn(c, y).desc # e.desc
                        /\ RecordIn(c, y).desc # <<>>
                        /\ e.desc # <<>>))

OverridesWitness ==
    /\ Succeeded
    /\ \E n \in 1..Len(Emitted) :
          LET e == Emitted[n].entry IN
          /\ DOMAIN e.desc_overrides # {}
          /\ \E y \in DOMAIN e.desc_overrides : e.desc_overrides[y] # e.desc

\* Requested output years with no --year pair.
RequestedYears == args.years.start..args.years.end
MissingYears == {y \in RequestedYears : SuppliedFor(y) = {}}

\* C7  Missing input year: with a valid range and usable files the run ends
\* with exit status 0 whatever years are missing; the written meta lists
\* exactly the requested years without a pair, and every entry is null at
\* those years.
MissingYearTolerated ==
    /\ (pc = "done" /\ InputsUsable) => exit_code = Some(0)
    /\ Succeeded =>
          /\ out_file.exists
          /\ out_file.content = Doc
          /\ SeqToSet(out_file.content[1].meta[1].missing_years) = MissingYears
          /\ \A y \in MissingYears : \A n \in 1..Len(codes_out) :
                AllNull(codes_out[n].entry, y - args.years.start + 1)

MissingYearWitness ==
    /\ Succeeded
    /\ MissingYears # {}
    /\ codes_out # <<>>
    /\ meta.missing_years # <<>>

\* C8  Determinism: a second run on the same command line and files builds
\* the same codes, in the same order, as the first, and writes the same
\* "codes" content.
RerunSameCodes ==
    /\ (run = 2 /\ (pc \in {"mkdir", "open", "write"} \/ Succeeded))
          => codes_out = first_codes[1]
    /\ (run = 2 /\ Succeeded) => CodeChunks(out_file) = CodeChunks(prev_file)

RerunWitness ==
    /\ run = 2
    /\ Succeeded
    /\ Len(codes_out) = 2
    /\ meta.generated_at # prev_file.content[1].meta[1].generated_at

\* C9  Atomic output: the file at the output path is always what it was
\* when the run started or the complete new document.
AtomicOutput ==
    \/ out_file = prev_file
    \/ pc \in {"write", "done"} /\ out_file = FileWith(Doc)

\* C10  Invalid range: with end before start the run does no file-system
\* operation at all, leaves the output directory and file as they were, and
\* ends with a diagnostic and a non-zero exit status.
InvalidRangeAborts ==
    RangeReversed =>
        /\ pc \in {"start", "done"}
        /\ io_log = {}
        /\ out_file = prev_file
        /\ out_dir = prev_file.exists
        /\ pc = "done" => (exit_code = Some(2) /\ "ERROR" \in stderr)

InvalidRangeWitness ==
    /\ RangeReversed
    /\ pc = "done"
    /\ exit_code = Some(2)
    /\ \E i \in 1..Len(args.year) : fs[args.year[i].path].kind = "object"
    /\ ~out_file.exists

\* A file the merger cannot use: the path does not exist, the bytes are not
\* JSON, the top level is not an object, or a numeric field of a row that is
\* read is a string float() rejects.
Uncoercible(value) ==
    /\ value.t = "str"
    /\ LET s == Strip(value.s)
       IN ~(\/ s # <<>> /\ \A i \in 1..Len(s) : s[i] \in {"0", "1", "2", "3"}
            \/ s \in {<<"n", "a", "n">>, <<"i", "n", "f">>})

UnusableFile(file) ==
    \/ file.kind # "object"
    \/ \E i \in 1..Len(file.items) :
          LET it == file.items[i] IN
          /\ Strip(it.key) # <<>>
          /\ it.row.obj
          /\ REQUIRED_RVU_FIELDS \subseteq DOMAIN it.row.fields
          /\ \E k \in REQUIRED_RVU_FIELDS \ {"desc"} : Uncoercible(it.row.fields[k])

BadInputAt == {i \in 1..Len(args.year) : UnusableFile(fs[args.year[i].path])}

\* C11  Bad input: when any supplied path is missing or unreadable, or any
\* snapshot fails validation, the run never reaches the merge or the output
\* path, the output file stays exactly what it was before the run (absent
\* or the old document), and the run ends with a non-zero exit status.
BadInputLeavesOutput ==
    BadInputAt # {} =>
        /\ pc \in {"start", "inputs", "load", "done"}
        /\ out_file = prev_file
        /\ out_dir = prev_file.exists
        /\ pc = "done" => exit_code \in {Some(1), Some(2)}

\* A valid snapshot first, an unusable one second, an old output in place.
BadInputWitness ==
    /\ pc = "done"
    /\ exit_code = Some(1)
    /\ RangeValid
    /\ 2 \in BadInputAt
    /\ 1 \notin BadInputAt
    /\ fs[args.year[2].path].kind = "object"
    /\ out_file = OldFile

\* C12  Code coverage: after a successful run the keys of "codes" in the
\* output file are exactly the codes of all supplied snapshots (whatever
\* their years), each once, and meta.total_codes is their number.
CodesCoverAllSnapshots ==
    Succeeded =>
        /\ {Emitted[n].code : n \in 1..Len(Emitted)}
              = UNION {DOMAIN SnapshotAt(i) : i \in 1..Len(args.year)}
        /\ \A m, n \in 1..Len(Emitted) : Emitted[m].code = Emitted[n].code => m = n
        /\ out_file.content[1].meta[1].total_codes = Len(Emitted)

\* ------------------------------------------------------------ find_column
\* The call has returned.
Resolved == fc_idx # None

\* Headers (1-based) that pattern k matches: either normalised string is a
\* substring of the other.
MatchedBy(k) ==
    {i \in 1..Len(fc_headers) :
        LET h == normalize_header(fc_headers[i])
            p == normalize_header(fc_patterns[k])
        IN Contains(p, h) \/ Contains(h, p)}

\* The same, over the headers that do not normalise to the empty string.
MatchedNonEmptyBy(k) ==
    {i \in MatchedBy(k) : normalize_header(fc_headers[i]) # <<>>}

Lowest(S) == CHOOSE i \in S : \A j \in S : i <= j

\* C13  Column Resolver: the result is the lowest position among the headers
\* matched by the first pattern, in the order given, that matches any
\* header, and None when no pattern matches a header.
FirstPatternLowestHeader ==
    Resolved =>
        LET hitting == {k \in 1..Len(fc_patterns) : MatchedBy(k) # {}}
        IN IF hitting = {}
           THEN fc_idx = Some(None)
           ELSE fc_idx = Some(Some(Lowest(MatchedBy(Lowest(hitting))) - 1))

\* C13 as amended: the same, where a header whose normalised form is empty
\* is matched by no pattern.
FirstPatternLowestNonEmptyHeader ==
    Resolved =>
        LET hitting == {k \in 1..Len(fc_patterns) : MatchedNonEmptyBy(k) # {}}
        IN IF hitting = {}
           THEN fc_idx = Some(None)
           ELSE fc_idx = Some(Some(Lowest(MatchedNonEmptyBy(Lowest(hitting))) - 1))

\* The first pattern matches only the second header, the second pattern
\* matches the first header: the second header's position is returned.
FirstPatternWitness ==
    /\ Resolved
    /\ Len(fc_headers) = 2
    /\ Len(fc_patterns) = 2
    /\ MatchedNonEmptyBy(1) = {2}
    /\ 1 \in MatchedNonEmptyBy(2)
    /\ fc_idx = Some(Some(1))

\* C14  Symmetry: the header "PE RVU Non-Facility" is resolved by the single
\* pattern "non-facility pe", and the header "Non-Facility PE" by the single
\* pattern "pe rvu non-facility", each to the position of that header.
SymmetricResolution ==
    Resolved =>
        \A i \in 1..Len(fc_headers) :
            \/ fc_headers[i] = PE_RVU_NON_FACILITY /\ fc_patterns = <<non_facility_pe>>
            \/ fc_headers[i] = NON_FACILITY_PE /\ fc_patterns = <<pe_rvu_non_facility>>
            => fc_idx = Some(Some(i - 1))


\* ------------------------------------------- runs of the Snapshot Normalizer
\* The run normalises an RVU table (main, line 488).
RvuRun ==
    /\ Len(sys_argv) >= 2
    /\ ~Contains(<<"g", "p", "c", "i">>, Lower(sys_argv[2]))

GpciRun ==
    /\ Len(sys_argv) >= 2
    /\ Contains(<<"g", "p", "c", "i">>, Lower(sys_argv[2]))

NSucceeded == n_pc = "done" /\ n_exit = Some(0)

NAborted == n_pc = "done" /\ n_exit # None /\ n_exit # Some(0)

\* The snapshot in the output file of a finished run.
Written == json_file.content[1]

\* The four valuation columns and the component each one fills.
RVU_VALUES ==
    {[col |-> "work", field |-> "work_rvu"],
     [col |-> "pe_fac", field |-> "pe_rvu_fac"],
     [col |-> "pe_nonfac", field |-> "pe_rvu_nonfac"],
     [col |-> "mp", field |-> "mp_rvu"]}

\* The cell of a row under a resolved column, None where the column is
\* unresolved or the row is too short.
CellOf(row, idx) ==
    IF idx = None \/ idx[1] >= Len(row) THEN None ELSE Some(row[idx[1] + 1])

\* No number can be read from the cell: it is missing, empty, or what is left
\* of it after cleaning is not a decimal numeral.
NoNumber(cell) ==
    \/ cell = None
    \/ CleanNumeric(cell[1]) = <<>>
    \/ ~DecimalParses(CleanNumeric(cell[1]))

\* The row the loop of parse_rvu_csv has just handled carries a code.
RvuRowJustAccepted ==
    /\ RvuRun
    /\ n_pc = "rvu_rows"
    /\ row_num > 0
    /\ cols.cpt[1] < Len(data_rows[row_num])
    /\ Strip(data_rows[row_num][cols.cpt[1] + 1]) # <<>>
    /\ Lower(Strip(data_rows[row_num][cols.cpt[1] + 1])) \notin HEADER_LIKE_CODES

\* C15: an RVU data row with an accepted code is emitted as a record, and each
\* of its four components whose column is unresolved, whose cell is missing or
\* empty, or whose cleaned text is not a number, is 0.0 in that record.
NumericDefaultZero ==
    RvuRowJustAccepted =>
        LET row == data_rows[row_num]
            code == Strip(row[cols.cpt[1] + 1])
        IN /\ code \in DictKeys(data)
           /\ \A v \in RVU_VALUES :
                 NoNumber(CellOf(row, cols[v.col])) =>
                     DictGet(data, code)[v.field] = F(0)

\* A row whose work cell is "-" (nothing numeric after cleaning but the sign)
\* and whose other cells are numbers has been emitted with work_rvu 0.0.
NumericDefaultWitness ==
    /\ RvuRowJustAccepted
    /\ LET row == data_rows[row_num]
           code == Strip(row[cols.cpt[1] + 1])
       IN /\ CellOf(row, cols.work) = Some(<<"-">>)
          /\ ~NoNumber(CellOf(row, cols.mp))
          /\ code \in DictKeys(data)
          /\ DictGet(data, code).work_rvu = F(0)
          /\ DictGet(data, code).mp_rvu # F(0)


\* ------------------------------------------------------ rows of a GPCI table
\* The loop of parse_gpci_csv has started on the data rows.
GpciLoopEntered ==
    /\ GpciRun
    /\ n_pc \in {"gpci_rows", "dump"} \/ NSucceeded

\* The stripped text of a cell, empty where there is no cell.
TextOf(cell) == IF cell = None THEN <<>> ELSE Strip(cell[1])

\* The row has a locality number and a locality name.
NamedLocality(row) ==
    /\ TextOf(CellOf(row, cols.locality_num)) # <<>>
    /\ TextOf(CellOf(row, cols.locality_name)) # <<>>

GPCI_INDICES == {"work_gpci", "pe_gpci", "mp_gpci"}

\* One of the three index cells of the row holds no number.
MissingIndex(row) == \E k \in GPCI_INDICES : NoNumber(CellOf(row, cols[k]))

\* The row passes for a data line: it names a locality and, in a table with a
\* state column, its state cell is neither blank nor the word "state".
DataLine(row) ==
    /\ NamedLocality(row)
    /\ cols.state # None =>
          /\ TextOf(CellOf(row, cols.state)) # <<>>
          /\ normalize_header(TextOf(CellOf(row, cols.state))) # <<"s", "t", "a", "t", "e">>

\* C16 as stated: every handled row with a locality number and name and a
\* blank or unparseable index is counted once in `skipped`, and its locality
\* key is not a key of the snapshot.
MissingIndexRowDropped ==
    GpciLoopEntered =>
        LET dropped == {i \in 1..row_num : /\ NamedLocality(data_rows[i])
                                           /\ MissingIndex(data_rows[i])}
        IN /\ skipped = Cardinality(dropped)
           /\ \A i \in dropped : GpciKey(data_rows[i], cols) \notin DictKeys(data)

\* C16, amended: the data lines with a blank or unparseable index are the rows
\* counted in `skipped`, and none of them adds a record: the keys of the
\* snapshot are the keys of the data lines whose three indices are numbers,
\* and the indices of every record are those of such a line.
MissingIndexLineSkipped ==
    GpciLoopEntered =>
        LET lines == {i \in 1..row_num : DataLine(data_rows[i])}
            dropped == {i \in lines : MissingIndex(data_rows[i])}
            kept == lines \ dropped
        IN /\ skipped = Cardinality(dropped)
           /\ DictKeys(data) = {GpciKey(data_rows[i], cols) : i \in kept}
           /\ \A n \in 1..Len(data) : \E i \in kept :
                 /\ data[n].key = GpciKey(data_rows[i], cols)
                 /\ \A k \in GPCI_INDICES :
                       data[n].value[k] = F(DecimalValue(CleanNumeric(data_rows[i][cols[k][1] + 1])))

\* A finished run over two data lines, one with a blank practice-expense
\* index: it was counted, and the file holds the other line only.
MissingIndexWitness ==
    /\ GpciRun
    /\ NSucceeded
    /\ row_num = 2
    /\ skipped = 1
    /\ \E i, j \in 1..2 :
          /\ DataLine(data_rows[i]) /\ DataLine(data_rows[j])
          /\ CellOf(data_rows[i], cols.pe_gpci) = Some(<<>>)
          /\ ~MissingIndex(data_rows[j])
          /\ GpciKey(data_rows[i], cols) # GpciKey(data_rows[j], cols)
          /\ DictKeys(Written) = {GpciKey(data_rows[j], cols)}


\* ------------------------------------------------------ rows of an RVU table
\* Row i of the data rows carries a code parse_rvu_csv accepts.
Coded(i) ==
    /\ cols.cpt[1] < Len(data_rows[i])
    /\ Strip(data_rows[i][cols.cpt[1] + 1]) # <<>>
    /\ Lower(Strip(data_rows[i][cols.cpt[1] + 1])) \notin HEADER_LIKE_CODES

CodeOf(i) == Strip(data_rows[i][cols.cpt[1] + 1])

\* The last data row that carries the code of row i.
LastWithCodeOf(i) ==
    CHOOSE j \in 1..Len(data_rows) :
        /\ Coded(j) /\ CodeOf(j) = CodeOf(i)
        /\ \A k \in (j + 1)..Len(data_rows) : ~(Coded(k) /\ CodeOf(k) = CodeOf(i))

\* C17: in the snapshot of a finished run every code of the table has exactly
\* one record, the one built from the last data row that carries the code.
LastOccurrenceWins ==
    (RvuRun /\ NSucceeded) =>
        \A i \in 1..Len(data_rows) : Coded(i) =>
            /\ Cardinality({n \in 1..Len(Written) : Written[n].key = CodeOf(i)}) = 1
            /\ DictGet(Written, CodeOf(i)) = RvuRecord(data_rows[LastWithCodeOf(i)], cols)

\* A finished run over two rows with the same code and different values: the
\* snapshot holds the record of the second row.
LastOccurrenceWitness ==
    /\ RvuRun
    /\ NSucceeded
    /\ Len(data_rows) = 2
    /\ Coded(1) /\ Coded(2)
    /\ CodeOf(1) = CodeOf(2)
    /\ RvuRecord(data_rows[1], cols) # RvuRecord(data_rows[2], cols)
    /\ Len(Written) = 1
    /\ Written[1].value = RvuRecord(data_rows[2], cols)


\* C18: every record of the snapshot of a finished run has its four valuation
\* components present as finite numbers that are not negative.
ComponentsNonNegative ==
    (RvuRun /\ NSucceeded) =>
        \A n \in 1..Len(Written) : \A v \in RVU_VALUES :
            /\ v.field \in DOMAIN Written[n].value
            /\ IsFinite(Written[n].value[v.field])
            /\ Written[n].value[v.field].v >= 0

\* C19: every key of the snapshot of a finished run is a trimmed, upper-cased,
\* non-empty code, and two data rows whose codes differ only in letter case or
\* surrounding blanks are under one key.
KeysTrimmedUpper ==
    (RvuRun /\ NSucceeded) =>
        /\ \A n \in 1..Len(Written) :
              /\ Written[n].key # <<>>
              /\ Written[n].key = Upper(Strip(Written[n].key))
        /\ \A i, j \in 1..Len(data_rows) :
              (Coded(i) /\ Coded(j) /\ Upper(CodeOf(i)) = Upper(CodeOf(j))) =>
                  Cardinality({n \in 1..Len(Written) :
                                  Upper(Written[n].key) = Upper(CodeOf(i))}) = 1


\* ------------------------------------------------------- required columns
\* The columns have been looked up in the header of the table.
ColumnsLookedUp == cols # NoColumns

RVU_VALUE_COLUMNS == {"work", "pe_fac", "pe_nonfac", "mp"}

GPCI_REQUIRED_COLUMNS == {"locality_num", "locality_name", "work_gpci", "pe_gpci", "mp_gpci"}

\* The header row of the table as it stands in the file: the first row of an
\* RVU table, the row extract_gpci_headers stops at in a GPCI table.
RawHeader ==
    IF RvuRun THEN Head(csv_file.rows)
    ELSE csv_file.rows[extract_gpci_headers(csv_file.rows)[1].header_idx + 1]

\* The run was aborted over the columns: status not 0, the header list on the
\* console, the output file as it was before the run.
AbortedOverColumns(listed) ==
    /\ NAborted
    /\ LineWith("Available headers:", listed) \in console
    /\ json_file = json_prev

\* C20 as stated: an RVU run with the code column or one of the four valuation
\* columns unresolved, and a GPCI run with one of its five required columns
\* unresolved, is aborted with the raw header list and without output.
UnresolvedRequiredAborts ==
    (/\ ColumnsLookedUp
     /\ \/ RvuRun /\ (cols.cpt = None \/ \E k \in RVU_VALUE_COLUMNS : cols[k] = None)
        \/ GpciRun /\ \E k \in GPCI_REQUIRED_COLUMNS : cols[k] = None)
    => AbortedOverColumns(RawHeader)

\* C20, amended: the run is aborted when the code column of an RVU table or
\* one of the five required columns of a GPCI table is unresolved, and the
\* list printed is the one the columns were looked up in (the header row of
\* the file when the header stands on one line); an RVU run whose code column
\* is resolved is not aborted, whatever valuation columns are unresolved.
UnresolvedCodeOrGpciAborts ==
    ColumnsLookedUp =>
        /\ (RvuRun /\ cols.cpt = None) => AbortedOverColumns(RawHeader)
        /\ (GpciRun /\ \E k \in GPCI_REQUIRED_COLUMNS : cols[k] = None) =>
              /\ AbortedOverColumns(headers)
              /\ headers = extract_gpci_headers(csv_file.rows)[1].headers
              /\ extract_gpci_headers(csv_file.rows)[1].header_line_count = 1 =>
                    headers = RawHeader
        /\ (RvuRun /\ cols.cpt # None) => ~NAborted

\* A GPCI run over a table whose work index column is unresolved has been
\* aborted, the header list is on the console and the file that was there
\* before is still there.
UnresolvedRequiredWitness ==
    /\ GpciRun
    /\ ColumnsLookedUp
    /\ cols.work_gpci = None
    /\ cols.pe_gpci # None
    /\ AbortedOverColumns(RawHeader)
    /\ n_exit = Some(1)
    /\ json_prev = OldJson


\* ------------------------------------------------------- accounting of rows
\* The loop over the data rows has started, in either kind of run.
LoopEntered == n_pc \in {"rvu_rows", "gpci_rows", "dump"} \/ NSucceeded

\* The loop over the data rows is over.
LoopOver == n_pc = "dump" \/ NSucceeded

\* Row i has fewer cells than the header.
ShortRow(i) == Len(data_rows[i]) < Len(headers)

\* Row i has a cell under a resolved numeric column that holds no number.
BadNumber(i) ==
    \E k \in (IF RvuRun THEN RVU_VALUE_COLUMNS ELSE GPCI_INDICES) :
        /\ cols[k] # None
        /\ CellOf(data_rows[i], cols[k]) # None
        /\ NoNumber(CellOf(data_rows[i], cols[k]))

\* Row i of an RVU table repeats the code of an earlier row.
DuplicateCode(i) ==
    /\ RvuRun
    /\ Coded(i)
    /\ \E j \in 1..(i - 1) : Coded(j) /\ CodeOf(j) = CodeOf(i)

Faulty(i) == ShortRow(i) \/ BadNumber(i) \/ DuplicateCode(i)

Window == 0..(scan_limit - 1)

\* Row i carries both anchors.
Anchored(i) == HasLocalityAnchors(NormCells(hl_rows[i + 1]))

\* Row i exists and carries the three index columns.
Indexed(i) == i < Len(hl_rows) /\ has_gpci_cols(NormCells(hl_rows[i + 1]))

Least(S) == CHOOSE i \in S : \A j \in S : i <= j

\* The call has returned the header found at row i on `count` lines.
ReturnedAt(i, count) ==
    /\ hl_result # None
    /\ hl_result[1].header_idx = i
    /\ hl_result[1].header_line_count = count
    /\ hl_result[1].data_start = i + count

\* No row from the data start on was tested as a header line.
NoHeaderTestInData ==
    hl_result # None =>
        \A j \in hl_anchor \cup hl_cont : j < hl_result[1].data_start

\* C22 as stated: the call returns at the lowest row i of the window that
\* carries the anchors and has the index columns on itself or on row i + 1,
\* and returns None exactly when the window has no such row.
LocatorReturnsLowest ==
    hl_pc = "done" =>
        LET found == {i \in Window : Anchored(i) /\ (Indexed(i) \/ Indexed(i + 1))}
        IN /\ (hl_result = None) <=> (found = {})
           /\ found # {} =>
                 ReturnedAt(Least(found), IF Indexed(Least(found)) THEN 1 ELSE 2)
           /\ NoHeaderTestInData

\* C22, amended: only rows of at least three cells count, as header line and
\* as second line, and the second line has to be inside the window too.
LocatorReturnsLowestScannable ==
    hl_pc = "done" =>
        LET Long(i) == Len(hl_rows[i + 1]) >= 3
            found == {i \in Window :
                         /\ Long(i) /\ Anchored(i)
                         /\ \/ Indexed(i)
                            \/ i + 1 \in Window /\ Long(i + 1) /\ Indexed(i + 1)}
        IN /\ (hl_result = None) <=> (found = {})
           /\ found # {} =>
                 ReturnedAt(Least(found), IF Indexed(Least(found)) THEN 1 ELSE 2)
           /\ NoHeaderTestInData

\* A call on a table whose first row carries the anchors in two cells and is
\* passed over, second line behind it or not: the header returned is the
\* one-line header on the third row.
LocatorWitness ==
    /\ hl_pc = "done"
    /\ hl_rows = <<HL_ANCHORS_SHORT, HL_INDICES, HL_HEADER>>
    /\ Anchored(0) /\ Indexed(1)
    /\ 0 \notin hl_anchor
    /\ ReturnedAt(2, 1)


\* The header was returned merged from rows i and i + 1.
MergedAt(i) == hl_pc = "done" /\ ReturnedAt(i, 2)

\* The trimmed cell j (from 1) of a row, empty where the row has no cell j.
Trimmed(row, j) == IF j <= Len(row) THEN Strip(row[j]) ELSE <<>>

\* The text is made of decimal digits only.
PurelyDigits(s) == s # <<>> /\ \A k \in 1..Len(s) : s[k] \in DigitSet

\* C23: a header merged from two lines is as wide as the wider line, and at
\* each position holds the trimmed cell of the first line when that is not
\* empty and not purely digits, else the trimmed cell of the second line, and
\* the first line's cell only when the second line's is empty or missing.
MergeRule ==
    \A i \in 0..(Len(hl_rows) - 2) : MergedAt(i) =>
        LET row1 == hl_rows[i + 1]
            row2 == hl_rows[i + 2]
            merged == hl_result[1].headers
        IN /\ Len(merged) = IF Len(row1) >= Len(row2) THEN Len(row1) ELSE Len(row2)
           /\ \A j \in 1..Len(merged) :
                 LET a == Trimmed(row1, j)
                     b == Trimmed(row2, j)
                 IN merged[j] = IF a # <<>> /\ ~PurelyDigits(a) THEN a
                                ELSE IF b # <<>> THEN b
                                ELSE a

\* A header merged from a line of six cells and one of seven: the name is
\* trimmed, the empty cell and the year give way to the second line, "GAF"
\* stays, the digit stays where the second line is empty, and the seventh cell
\* is the second line's.
MergeRuleWitness ==
    /\ MergedAt(0)
    /\ hl_rows[1] = HL_ANCHORS
    /\ hl_rows[2] = HL_INDICES
    /\ hl_result[1].headers =
          <<HL_ANCHORS[1], Strip(HL_ANCHORS[2]), Strip(HL_INDICES[3]), HL_INDICES[4],
            HL_ANCHORS[5], HL_ANCHORS[6], HL_INDICES[7]>>


\* C24 as stated: a row is tested as a second header line only for the
\* anchored row right above it, and a row tested as a second header line is
\* not tested for the anchors afterwards.  (The anchor test of a row comes
\* after its test as a second line, one pass later.)
RowIndexNeverReused ==
    /\ \A j \in hl_cont : (j - 1) \in hl_anchor /\ Anchored(j - 1) /\ ~Indexed(j - 1)
    /\ hl_cont \cap hl_anchor = {}

\* C24, amended: a row is tested as a second header line only for the
\* anchored row right above it, inside the window and with three cells or
\* more; a merged header is made of rows i and i + 1; a row that failed as a
\* second line is tested for the anchors on the next pass and is never
\* returned as a one-line header, but can be the first line of a pair.
ContinuationIsNextRow ==
    /\ \A j \in hl_cont :
          /\ (j - 1) \in hl_anchor /\ Anchored(j - 1) /\ ~Indexed(j - 1)
          /\ j \in Window /\ Len(hl_rows[j + 1]) >= 3
          /\ (hl_i > j \/ (hl_i = j /\ hl_pc = "done" /\ hl_result = None)) =>
                (j \in hl_anchor /\ ~Indexed(j))
    /\ hl_result # None =>
          /\ hl_result[1].header_line_count = 1 => hl_result[1].header_idx \notin hl_cont
          /\ hl_result[1].header_line_count = 2 =>
                /\ hl_result[1].header_idx + 1 \in hl_cont
                /\ Indexed(hl_result[1].header_idx + 1)
                /\ hl_result[1].data_start = hl_result[1].header_idx + 2

\* Two anchored rows and a row of index columns: the second row failed as the
\* second line of the first and was returned as the first line of a pair.
ContinuationWitness ==
    /\ hl_pc = "done"
    /\ hl_rows = <<HL_ANCHORS, HL_ANCHORS, HL_INDICES>>
    /\ hl_cont = {1, 2}
    /\ hl_anchor = {0, 1}
    /\ ReturnedAt(1, 2)


\* ------------------------------------------------ state inference and keys
\* The state a locality name stands for: the two letters behind its last
\* comma, upper-cased, trailing asterisks apart; else the state whose name
\* the upper-case letters and blanks of the name spell; else none.
InferredState(name) ==
    LET cleaned == Strip(DropTrailingStars(Strip(name)))
        commas == {k \in 1..Len(cleaned) : cleaned[k] = ","}
        suffix == IF commas = {} THEN <<>>
                  ELSE LET last == CHOOSE k \in commas : \A m \in commas : m <= k
                       IN Upper(Strip(SubSeq(cleaned, last + 1, Len(cleaned))))
        LetterOrBlank(c) == c \in UpperSet \/ c = " "
        spelled == Strip(SelectSeq(Upper(cleaned), LetterOrBlank))
        named == {k \in 1..Len(STATE_BY_NAME) : STATE_BY_NAME[k][1] = spelled}
    IN IF Len(suffix) = 2 /\ \A k \in 1..2 : suffix[k] \in UpperSet THEN suffix
       ELSE IF named # {} THEN STATE_BY_NAME[CHOOSE k \in named : TRUE][2]
       ELSE <<>>

\* The complete data lines the loop has handled in a table without a state
\* column.
StatelessLines ==
    IF GpciLoopEntered /\ cols.state = None
    THEN {i \in 1..row_num : DataLine(data_rows[i]) /\ ~MissingIndex(data_rows[i])}
    ELSE {}

NameOf(i) == TextOf(CellOf(data_rows[i], cols.locality_name))

NumberOf(i) == TextOf(CellOf(data_rows[i], cols.locality_num))

\* A row is emitted with the state its name stands for, under the state, or
\* the name where there is no state, followed by "-" and `number`.
EmittedUnder(i, number) ==
    LET state == InferredState(NameOf(i))
        key == (IF state # <<>> THEN state ELSE NameOf(i)) \o <<"-">> \o number
    IN /\ key \in DictKeys(data)
       /\ DictGet(data, key).state = state
       /\ DictGet(data, key).name = NameOf(i)

\* C25 as stated: the key ends with the locality number of the row.
StateInferredAndKeyed ==
    \A i \in StatelessLines : EmittedUnder(i, NumberOf(i))

\* C25, amended: the key ends with the locality number as the record's key
\* writes it: the integer part without leading zeros when the number is made
\* of digits and at most one point, the cell's text otherwise.
StateInferredAndKeyedByInteger ==
    \A i \in StatelessLines : EmittedUnder(i, LocalityKey(NumberOf(i)))

\* A finished run over a table without a state column: "Anytown, ut**" is
\* under UT-1, "Nowhere" under Nowhere-2 with no state, "Utah*" under UT-3.
StateInferredWitness ==
    /\ GpciRun
    /\ NSucceeded
    /\ cols.state = None
    /\ StatelessLines = {1, 2, 3}
    /\ InferredState(NameOf(2)) = <<>>
    /\ [n \in 1..3 |-> Written[n].key] =
          << <<"U", "T", "-", "1">>,
             <<"N", "o", "w", "h", "e", "r", "e", "-", "2">>,
             <<"U", "T", "-", "3">> >>
    /\ [n \in 1..3 |-> Written[n].value.state] = << <<"U", "T">>, <<>>, <<"U", "T">> >>


\* The output years (by index) at which an entry's status is "new".
NewAt(e) == {i \in 1..Len(e.status) : e.status[i] = Some("new")}

\* C26: in every emitted entry "new" stands at most once, and once when the
\* code is in the snapshot of some output year; every status behind it that
\* is not null is "existing" or "modified".
SingleIntroduction ==
    \A n \in 1..Len(Emitted) :
        LET e == Emitted[n].entry
            present == {i \in 1..Len(EmittedYears) : InYear(Emitted[n].code, EmittedYears[i])}
        IN /\ Cardinality(NewAt(e)) = IF present = {} THEN 0 ELSE 1
           /\ \A i \in NewAt(e) : \A j \in (i + 1)..Len(e.status) :
                 e.status[j] \in {None, Some("existing"), Some("modified")}

\* An entry of a code that is introduced, absent the year after, and back
\* with other values the year after that.
SingleIntroductionWitness ==
    /\ Succeeded
    /\ \E n \in 1..Len(Emitted) :
          LET st == Emitted[n].entry.status
          IN /\ Len(st) = 3
             /\ st[1] = Some("new")
             /\ st[2] = None
             /\ st[3] = Some("modified")


\* The output years (by index) in which the code of entry n is present.
PresentAt(n) == {i \in 1..Len(EmittedYears) : InYear(Emitted[n].code, EmittedYears[i])}

\* The record of the code of entry n at output year i.
RecordAt(n, i) == RecordIn(Emitted[n].code, EmittedYears[i])

\* From the present year before i to year i no component of entry n moved by
\* more than the tolerance and the description stayed.
SmallStep(n, i) ==
    LET p == PrevPresentIdx(Emitted[n].code, i)
    IN ~RecordChanged(RecordAt(n, p), RecordAt(n, i), args.float_tol)

\* C27: when every present year of an entry is a small step from the present
\* year before it, every present year behind the first is "existing",
\* however far the first is from the last; and whether a year is "existing"
\* is settled by the present year before it alone, whatever the records
\* before that one are.
ComparedWithPreviousOnly ==
    \A n \in 1..Len(Emitted) :
        LET later == {i \in PresentAt(n) : PrevPresentIdx(Emitted[n].code, i) # 0}
            st == Emitted[n].entry.status
        IN /\ (\A i \in later : SmallStep(n, i)) =>
                 (\A i \in later : st[i] = Some("existing"))
           /\ \A i \in later :
                 (st[i] = Some("existing")) <=> SmallStep(n, i)

\* An entry whose component goes up by the tolerance from each year to the
\* next: the third year differs from the first by more than the tolerance
\* and is "existing".
ComparedWithPreviousWitness ==
    /\ Succeeded
    /\ args.float_tol = 1
    /\ \E n \in 1..Len(Emitted) :
          /\ PresentAt(n) = {1, 2, 3}
          /\ SmallStep(n, 2) /\ SmallStep(n, 3)
          /\ RecordChanged(RecordAt(n, 1), RecordAt(n, 2), 0)
          /\ RecordChanged(RecordAt(n, 1), RecordAt(n, 3), args.float_tol)
          /\ Emitted[n].entry.status = <<Some("new"), Some("existing"), Some("existing")>>


\* The phases of a build, in the order of the docstring.
PHASES == <<"rvu", "gpci", "timeline", "metadata">>

\* The place of a phase in PHASES.
PhaseNo(phase) == CHOOSE j \in 1..Len(PHASES) : PHASES[j] = phase

\* The phase has been entered.
Entered(phase) == \E j \in 1..Len(b_phases) : b_phases[j] = phase

\* The commands of the run that were given to run_command for the phase.
RanIn(phase) == {j \in 1..Len(b_ran) : b_ran[j].phase = phase}

\* The loop of a parse phase left no year behind: every source file of the
\* kind has its output file.
ParsedAll(kind) == \A y \in b_sources[kind] : b_files[kind][y] # "absent"

\* The merger was run and exited with 0.
TimelineBuilt == \E j \in RanIn("timeline") : b_ran[j].returncode = 0

\* What holds of a build at every moment.
BuildInOrder ==
    /\ Len(b_phases) <= Len(PHASES)
    /\ \A j \in 1..Len(b_phases) : b_phases[j] = PHASES[j]
    /\ \A j \in 1..Len(b_ran) :
          /\ Entered(b_ran[j].phase)
          /\ \A k \in 1..(j - 1) :
                /\ PhaseNo(b_ran[k].phase) <= PhaseNo(b_ran[j].phase)
                /\ b_ran[k].phase = b_ran[j].phase =>
                      \A y \in b_ran[k].years, z \in b_ran[j].years : y < z
          /\ b_ran[j].returncode # 0 =>
                /\ j = Len(b_ran)
                /\ b_exit = Some(1)
                /\ b_phases[Len(b_phases)] = b_ran[j].phase
          /\ b_ran[j].phase \in Kinds =>
                \A y \in b_ran[j].years : b_files[b_ran[j].phase][y] # "old"
    /\ Entered("gpci") => ParsedAll("rvu")
    /\ Entered("timeline") => ParsedAll("gpci")
    /\ Entered("metadata") => TimelineBuilt
    /\ b_files.metadata = "new" => TimelineBuilt /\ Entered("metadata")

\* What holds of every step of a build.
BuildStep ==
    /\ \A kind \in Kinds, y \in BuildYears :
          b_files[kind][y] # "absent" => b_files'[kind][y] = b_files[kind][y]
    /\ b_exit # None => UNCHANGED builder
    /\ Len(b_ran') <= Len(b_ran) + 1

\* C28: the phases run in the order RVU parse, GPCI parse, timeline build,
\* metadata update, each entered only when the ones before it went through;
\* a failed command is the last one of the run, which ends with status 1 in
\* the phase of that command; metadata.json is only written after the merger
\* exited with 0; and a per-year output file that exists is never the target
\* of a command nor changed.
BuildOrchestration == [][BuildInOrder' /\ BuildStep]_vars

\* Both RVU years have a source file and the first has its output already:
\* only the second is parsed; the GPCI command of year 1 then fails and the
\* run ends with status 1, year 2 unparsed, no timeline, metadata as it was.
BuildOrchestrationWitness ==
    /\ b_exit = Some(1)
    /\ b_sources = [rvu |-> {1, 2}, gpci |-> {1, 2}]
    /\ b_files.rvu = <<"old", "new">>
    /\ b_files.gpci = <<"absent", "absent">>
    /\ b_ran = <<[phase |-> "rvu", years |-> {2}, returncode |-> 0],
                 [phase |-> "gpci", years |-> {1}, returncode |-> 1]>>
    /\ b_phases = <<"rvu", "gpci">>
    /\ b_files.timeline = "absent"
    /\ b_files.metadata = "old"

====
